---- MODULE Spec2Model ----
(***************************************************************************)
(* A model of sqlxx (src/sqlxx.h): the query builder (text escaping,       *)
(* bindings, column-name templates, execute), the cursor / iterator        *)
(* protocol over a streaming statement handle, and row lookup.             *)
(*                                                                         *)
(* Text is a sequence of one-character strings.  A double is the record    *)
(* [ip, fp]: integer part and hundredths, enough for the conversions the   *)
(* builder performs (double(int), int64(double), double(float)).           *)
(***************************************************************************)
EXTENDS Integers, Sequences, FiniteSets, TLC

\* ------------------------------------------------------------------ bounds
MaxTextLen == 3      \* longest raw C-string appended in the escaping runs
MaxOps == 3          \* appends issued on one builder in the builder runs
MaxExecutes == 2     \* executes issued on one builder in the builder runs
MaxFmtLen == 3       \* pieces of the query text in the column-template runs
MaxRows == 3         \* rows a streaming handle holds
MaxIters == 2        \* iterator objects a caller keeps
MaxCallRows == 2     \* rows of the handle in the runs that log its calls
MaxPasses == 2       \* begin()-to-end() loops a caller runs over one cursor
MaxCols == 2         \* fields of a row in the lookup runs
MaxTx == 2           \* scoped transaction objects in the transaction runs
MaxTxCalls == 2      \* commit() / rollback() calls in the transaction runs
MaxExecs == 2        \* execute() calls on one connection in the backend runs
Near == 2            \* how far from each tier boundary the bound integers reach
MaxDeclares == 4     \* cursor names the static counter hands out in the cursor-name runs
MaxHeld == 3         \* statement handles held at once in the cursor-name runs
MaxBlobLen == 3      \* bytes of a Blob in the round-trip runs
MaxRepeats == 1      \* cursor.begin() calls a thread makes on its insert's cursor
MaxOpens == 4        \* create, open() and close() calls on one db in the connection runs
MaxPieces == 5       \* pieces of a query text in the classification runs
MaxPulls == 2        \* first() / next() calls on the handle in the backend runs
NThreads == 2        \* worker threads sharing one connection
MaxFaults == 1       \* native calls that fail in one run of the workers

\* -------------------------------------------------------------- sql_type
SQL_INVALID == -1
SQL_NULL == 0
SQL_INTEGER == 1
SQL_FLOAT == 2
SQL_TEXT == 3
SQL_BLOB == 4

\* ----------------------------------------------------------- result_type
SQL_OK == 0
SQL_UNKNOWN_ERROR == 4

\* ------------------------------------------------------------ characters
QUOTE == "'"
BSLASH == "\\"

\* A char const* argument: a null pointer, or a NUL-terminated text.
NullPtr == [isnull |-> TRUE, chars |-> <<>>]
CStr(s) == [isnull |-> FALSE, chars |-> s]

\* Sequences over S of length at most n.
RECURSIVE SeqsUpTo(_, _)
SeqsUpTo(S, n) ==
  IF n = 0 THEN {<<>>}
  ELSE LET shorter == SeqsUpTo(S, n - 1)
       IN  shorter \cup {Append(s, c) : s \in {t \in shorter : Len(t) = n - 1}, c \in S}

\* --------------------------------------------------------------- doubles
D(ip, fp) == [ip |-> ip, fp |-> fp]
double_of_int(i) == D(i, 0)          \* double(int_)
int64_of_double(d) == d.ip           \* std::int64_t(d): truncation

\* ------------------------------------------------------------ field_type
field_default ==
  [int_ |-> 0, float_ |-> D(0, 0), str_ |-> <<>>, name_ |-> <<>>, type_ |-> SQL_INVALID]

field_null(name) == [field_default EXCEPT !.name_ = name, !.type_ = SQL_NULL]

field_int64(i, name) ==
  [field_default EXCEPT !.name_ = name, !.type_ = SQL_INTEGER,
                        !.int_ = i, !.float_ = double_of_int(i)]

field_double(d, name) ==
  [field_default EXCEPT !.name_ = name, !.type_ = SQL_FLOAT,
                        !.float_ = d, !.int_ = int64_of_double(d)]

\* Variant: the two constructor arguments taken the other way round.
field_text_swapped(s, name) ==
  [field_default EXCEPT !.name_ = s, !.type_ = SQL_TEXT, !.str_ = name]

field_text(s, name) ==
  [field_default EXCEPT !.name_ = name, !.type_ = SQL_TEXT, !.str_ = s]

field_blob(b, name) ==
  [field_default EXCEPT !.name_ = name, !.type_ = SQL_BLOB, !.str_ = b]

\* ------------------------------------------------- values at a call site
\* A C++ argument of operator<< / bind: its static type and its payload.
Val(ctype, s, i, d) == [ctype |-> ctype, s |-> s, i |-> i, d |-> d]
V_string(s) == Val("string", s, 0, D(0, 0))
V_cstr(s) == Val("cstr", s, 0, D(0, 0))
V_blob(b) == Val("blob", b, 0, D(0, 0))
V_char(i) == Val("char", <<>>, i, D(0, 0))
V_short(i) == Val("short", <<>>, i, D(0, 0))
V_int(i) == Val("int", <<>>, i, D(0, 0))
V_size_t(i) == Val("size_t", <<>>, i, D(0, 0))
V_int64(i) == Val("int64", <<>>, i, D(0, 0))
V_float(d) == Val("float", <<>>, 0, d)
V_double(d) == Val("double", <<>>, 0, d)

\* ---------------------------------------------------------------- state
VARIABLES
  query_,    \* query::query_   : the accumulated query text
  bind_,     \* query::bind_    : the binding list
  fmt,       \* the frame of a running operator<<(format) call
  driver,    \* what execute_impl received last, and how often it was called
  log,       \* history: the appends issued since the last execute
  expect,    \* history: the appends that preceded the last execute
  last,      \* history: the last completed operation and the state before it
  nops,      \* history: appends issued so far
  nexec      \* history: executes issued so far

qvars == <<query_, bind_, fmt, driver, log, expect, last, nops, nexec>>

VARIABLES
  stmt,      \* the streaming handle a cursor owns (a sqlxx::statement)
  its,       \* the iterators of the cursor, by slot
  clast,     \* history: the last cursor / iterator operation
  trav       \* history: a caller's loop from begin() to end()

cvars == <<stmt, its, clast, trav>>

VARIABLES
  row,       \* a sqlxx::row
  look       \* history: the last lookup on it and what it returned

rvars == <<row, look>>

VARIABLES
  txs,       \* the scoped transaction objects, by slot
  tlog,      \* history: the native transaction commands issued, in order
  tlast,     \* history: the last operation on a transaction object
  ntx        \* history: commit() / rollback() calls made so far

tvars == <<txs, tlog, tlast, ntx>>

VARIABLES
  backend,   \* which backend the connection belongs to
  db,        \* what the native library keeps for the connection
  hd,        \* the handle the caller holds: that of the last execute
  xlast,     \* history: the last execute, first or next and its native calls
  nx,        \* history: executes made so far
  np         \* history: first() / next() calls made on the handle held

xvars == <<backend, db, hd, xlast, nx, np>>

VARIABLES
  mutex,     \* db::mutex_ : 0 when free, else the thread that holds it
  th,        \* the worker threads: where each is, its handles, what it read
  wlast,     \* history: the last native call a worker made
  faults     \* history: native calls that failed so far

wvars == <<mutex, th, wlast, faults>>

VARIABLES
  arg,       \* the argument of a call of a free function
  ret        \* what the call returned, as <<value>> (<<>> before it)

pvars == <<arg, ret>>

VARIABLES
  cn,        \* a backend's db object: db_, open_, and whether it exists
  con,       \* what connection::create returned
  natives,   \* the handles the native library handed out: closes of each
  olast      \* history: the last call on the db and its native calls

ovars == <<cn, con, natives, olast>>

VARIABLES
  shared,    \* whether the build defines USE_SHARED_CONNECTION
  pqi,       \* pq_build_query's static counter i (the build without it)
  cursors,   \* the server-side cursors open on the PostgreSQL connection
  held,      \* the statement handles the callers hold, in order of execute
  klast      \* history: the last execute or handle destruction

kvars == <<shared, pqi, cursors, held, klast>>

vars == <<qvars, cvars, rvars, tvars, xvars, wvars, pvars, ovars, kvars>>
nonq == <<cvars, rvars, tvars, xvars, wvars, pvars, ovars, kvars>>  \* what the builder's operations leave alone
nonc == <<qvars, rvars, tvars, xvars, wvars, pvars, ovars, kvars>>  \* what the cursor's operations leave alone
nonr == <<qvars, cvars, tvars, xvars, wvars, pvars, ovars, kvars>>  \* what a row lookup leaves alone
nont == <<qvars, cvars, rvars, xvars, wvars, pvars, ovars, kvars>>  \* what a transaction object leaves alone
nonx == <<qvars, cvars, rvars, tvars, wvars, pvars, ovars, kvars>>  \* what a backend's execute leaves alone
nonw == <<qvars, cvars, rvars, tvars, hd, xlast, nx, np, pvars, ovars, kvars>>  \* what the workers leave alone

\* ------------------------------------------------- query::bind overloads
\* bind(param, float|char|short|int|size_t) and the template bind(param, T&&),
\* each ending in bind_.emplace_back(<converted value>, param).
bind_field(param, t) ==
  CASE t.ctype = "float"  -> field_double(t.d, param)
    [] t.ctype = "char"   -> field_int64(t.i, param)
    [] t.ctype = "short"  -> field_int64(t.i, param)
    [] t.ctype = "int"    -> field_int64(t.i, param)
    [] t.ctype = "size_t" -> field_int64(t.i, param)
    [] t.ctype = "int64"  -> field_int64(t.i, param)
    [] t.ctype = "double" -> field_double(t.d, param)
    [] t.ctype = "string" -> field_text(t.s, param)
    [] t.ctype = "cstr"   -> field_text(t.s, param)
    [] t.ctype = "blob"   -> field_blob(t.s, param)

bind(b, param, t) == Append(b, bind_field(param, t))

\* operator<<(T&&) and bind(T&&): bind({}, t)
bind_unnamed(b, t) == bind(b, <<>>, t)

\* Variant: the elements bound from the last to the first.
RECURSIVE expand_tuple_reversed(_, _, _)
expand_tuple_reversed(b, t, n) ==
  IF n > Len(t) THEN b
  ELSE expand_tuple_reversed(bind_unnamed(b, t[Len(t) - n + 1]), t, n + 1)

\* expand<T, N, M>::tuple: bind element N, then N+1 .. M-1
RECURSIVE expand_tuple(_, _, _)
expand_tuple(b, t, n) ==
  IF n > Len(t) THEN b
  ELSE expand_tuple(bind_unnamed(b, t[n]), t, n + 1)

\* Variant: the pair's name dropped.
binder_pair_unnamed(b, p) == bind(b, <<>>, p.second)

\* binder<T1, T2>::pair: q.bind(p.first, p.second)
binder_pair(b, p) == bind(b, p.first, p.second)

\* ------------------------------------------ operator<<(char const* text)
strpbrk_quote_bslash(s) == \E i \in 1..Len(s) : s[i] \in {QUOTE, BSLASH}

RECURSIVE escape_loop(_, _, _)
escape_loop(q, s, i) ==
  IF i > Len(s) THEN q
  ELSE LET q1 == Append(q, s[i])
           q2 == IF s[i] = QUOTE THEN Append(q1, QUOTE) ELSE q1
           q3 == IF s[i] = BSLASH THEN Append(q2, BSLASH) ELSE q2
       IN  escape_loop(q3, s, i + 1)

\* Variant: only the quote is doubled.
RECURSIVE escape_quote_only(_, _, _)
escape_quote_only(q, s, i) ==
  IF i > Len(s) THEN q
  ELSE LET q1 == Append(q, s[i])
           q2 == IF s[i] = QUOTE THEN Append(q1, QUOTE) ELSE q1
       IN  escape_quote_only(q2, s, i + 1)

shl_text_quote_only(q, text) ==
  IF text.isnull \/ text.chars = <<>> THEN q
  ELSE IF ~strpbrk_quote_bslash(text.chars) THEN q \o text.chars
  ELSE escape_quote_only(q, text.chars, 1)

shl_text(q, text) ==
  IF text.isnull \/ text.chars = <<>> THEN q
  ELSE IF ~strpbrk_quote_bslash(text.chars) THEN q \o text.chars
  ELSE escape_loop(q, text.chars, 1)

\* ------------------------------------------------ operator<<(format str)
Digit(d) == CASE d = 0 -> "0" [] d = 1 -> "1" [] d = 2 -> "2" [] d = 3 -> "3"
              [] d = 4 -> "4" [] d = 5 -> "5" [] d = 6 -> "6" [] d = 7 -> "7"
              [] d = 8 -> "8" [] d = 9 -> "9"

RECURSIVE Decimal(_)
Decimal(n) == IF n < 10 THEN <<Digit(n)>> ELSE Append(Decimal(n \div 10), Digit(n % 10))

\* Variant: the index is not advanced, every placeholder written is {0}.
write_buf_zero(buf, i) == <<"{", "0", "}">>

\* r << '{' << i << '}' written at offset 0 of buf: the characters of buf
\* beyond the written ones stay.
write_buf(buf, i) ==
  LET w == <<"{">> \o Decimal(i) \o <<"}">>
  IN  IF Len(w) >= Len(buf) THEN w ELSE w \o SubSeq(buf, Len(w) + 1, Len(buf))

\* q.find(buf): the first position (1-based) where pat occurs in q, 0 for npos
find(q, pat) ==
  LET hits == {p \in 1..(Len(q) - Len(pat) + 1) : SubSeq(q, p, p + Len(pat) - 1) = pat}
  IN  IF hits = {} THEN 0 ELSE CHOOSE p \in hits : \A r \in hits : p <= r

\* q.replace(pos, n, s)
replace(q, pos, n, s) == SubSeq(q, 1, pos - 1) \o s \o SubSeq(q, pos + n, Len(q))

FmtIdle == [pc |-> "idle", q |-> <<>>, i |-> 0, k |-> 1, names |-> <<>>, buf |-> <<>>, pre |-> <<>>]

\* ------------------------------------------------ history of operations
NoVal == V_int(0)
Op(op, text, val, tup, pname, names) ==
  [op |-> op, text |-> text, val |-> val, tup |-> tup, pname |-> pname, names |-> names]
OpCtor(str) == Op("ctor", CStr(str), NoVal, <<>>, <<>>, <<>>)
OpText(t) == Op("text", t, NoVal, <<>>, <<>>, <<>>)
OpValue(v) == Op("value", NullPtr, v, <<>>, <<>>, <<>>)
OpTuple(t) == Op("tuple", NullPtr, NoVal, t, <<>>, <<>>)
OpPair(p) == Op("pair", NullPtr, p.second, <<>>, p.first, <<>>)
OpFormat(names) == Op("format", NullPtr, NoVal, <<>>, <<>>, names)
OpExecute == Op("execute", NullPtr, NoVal, <<>>, <<>>, <<>>)

Done(op) == [op |-> op, pre_query |-> query_, pre_bind |-> bind_]

\* ------------------------------------------------------- builder actions
\* query::query(std::string const& str): (*this) << str.c_str()
Construct(str) ==
  /\ query_ = shl_text(<<>>, CStr(str))
  /\ bind_ = <<>>
  /\ fmt = FmtIdle
  /\ driver = [n |-> 0, query |-> <<>>, bind |-> <<>>]
  /\ log = <<OpCtor(str)>>
  /\ expect = <<>>
  /\ last = [op |-> OpCtor(str), pre_query |-> <<>>, pre_bind |-> <<>>]
  /\ nops = 0
  /\ nexec = 0

\* query& operator<<(char const* text)
AppendText(text) ==
  /\ fmt.pc = "idle"
  /\ query_' = shl_text(query_, text)
  /\ last' = Done(OpText(text))
  /\ log' = Append(log, OpText(text))
  /\ nops' = nops + 1
  /\ UNCHANGED <<bind_, fmt, driver, expect, nexec>>

\* template<class T> query& operator<<(T&& t): every argument that is not a
\* char const*, a format, a tuple or a pair
AppendValue(v) ==
  /\ fmt.pc = "idle"
  /\ bind_' = bind_unnamed(bind_, v)
  /\ last' = Done(OpValue(v))
  /\ log' = Append(log, OpValue(v))
  /\ nops' = nops + 1
  /\ UNCHANGED <<query_, fmt, driver, expect, nexec>>

\* query& operator<<(std::tuple<Args...> t)
AppendTuple(t) ==
  /\ fmt.pc = "idle"
  /\ bind_' = expand_tuple(bind_, t, 1)
  /\ last' = Done(OpTuple(t))
  /\ log' = Append(log, OpTuple(t))
  /\ nops' = nops + 1
  /\ UNCHANGED <<query_, fmt, driver, expect, nexec>>

\* query& operator<<(std::pair<T1, T2> p)
AppendPair(p) ==
  /\ fmt.pc = "idle"
  /\ bind_' = binder_pair(bind_, p)
  /\ last' = Done(OpPair(p))
  /\ log' = Append(log, OpPair(p))
  /\ nops' = nops + 1
  /\ UNCHANGED <<query_, fmt, driver, expect, nexec>>

\* operator<<(format str), entry: q = query_.str(); query_.str({})
FormatCall(names) ==
  /\ fmt.pc = "idle"
  /\ fmt' = [pc |-> "for", q |-> query_, i |-> 0, k |-> 1, names |-> names,
             buf |-> <<>>, pre |-> query_]
  /\ query_' = <<>>
  /\ nops' = nops + 1
  /\ UNCHANGED <<bind_, driver, log, expect, last, nexec>>

\* for (auto const& s : str) { r << '{' << i++ << '}'; ...
FormatFor ==
  /\ fmt.pc = "for"
  /\ fmt.k <= Len(fmt.names)
  /\ fmt' = [fmt EXCEPT !.buf = write_buf(fmt.buf, fmt.i), !.i = fmt.i + 1, !.pc = "while"]
  /\ UNCHANGED <<query_, bind_, driver, log, expect, last, nops, nexec>>

\* while ((pos = q.find(buf)) != q.npos) q.replace(pos, strlen(buf), s);
FormatReplace ==
  /\ fmt.pc = "while"
  /\ find(fmt.q, fmt.buf) # 0
  /\ fmt' = [fmt EXCEPT !.q = replace(fmt.q, find(fmt.q, fmt.buf), Len(fmt.buf),
                                      fmt.names[fmt.k])]
  /\ UNCHANGED <<query_, bind_, driver, log, expect, last, nops, nexec>>

\* the while loop ends: r.seekp(0), next name
FormatSeek ==
  /\ fmt.pc = "while"
  /\ find(fmt.q, fmt.buf) = 0
  /\ fmt' = [fmt EXCEPT !.k = fmt.k + 1, !.pc = "for"]
  /\ UNCHANGED <<query_, bind_, driver, log, expect, last, nops, nexec>>

\* the for loop ends: query_ << std::move(q); return *this
FormatReturn ==
  /\ fmt.pc = "for"
  /\ fmt.k > Len(fmt.names)
  /\ query_' = query_ \o fmt.q
  /\ last' = [op |-> OpFormat(fmt.names), pre_query |-> fmt.pre, pre_bind |-> bind_]
  /\ log' = Append(log, OpFormat(fmt.names))
  /\ fmt' = FmtIdle
  /\ UNCHANGED <<bind_, driver, expect, nops, nexec>>

\* Variant: execute() without query_.str({}).
execute_query_kept(q) == q

\* the state execute() leaves behind it
execute_query(q) == <<>>          \* query_.str({})
execute_bind(b) == <<>>           \* std::move(bind_) into the by-value parameter

\* cursor execute(): execute_impl(query_.str().c_str(), std::move(bind_))
Execute ==
  /\ fmt.pc = "idle"
  /\ driver' = [n |-> driver.n + 1, query |-> query_, bind |-> bind_]
  /\ query_' = execute_query(query_)
  /\ bind_' = execute_bind(bind_)
  /\ last' = Done(OpExecute)
  /\ expect' = log
  /\ log' = <<>>
  /\ nexec' = nexec + 1
  /\ UNCHANGED <<fmt, nops>>

\* -------------------------------------------------- statement (handle)
\* Variant of statement_next below: a next() that returns the row at the read
\* position and leaves the position where it is.
\*
\* The interface of sqlxx::statement as the backends implement it: next()
\* returns the row at the read position and moves on, or an empty row at
\* the end; first() moves the read position back to the first row.
statement_next_no_move(h) ==
  IF h.pos < Len(h.rows)
  THEN [row |-> h.rows[h.pos + 1], h |-> h]
  ELSE [row |-> <<>>, h |-> h]

statement_next(h) ==
  IF h.pos < Len(h.rows)
  THEN [row |-> h.rows[h.pos + 1], h |-> [h EXCEPT !.pos = h.pos + 1]]
  ELSE [row |-> <<>>, h |-> h]

statement_first(h) == [h EXCEPT !.pos = 0]

\* ------------------------------------------------------------- iterator
\* stmt_ is the weak_ptr: "stmt" observes the cursor's handle, "null" was
\* built from an empty shared_ptr.  lock() succeeds while the handle lives.
weak_lock(it, h) == it.stmt_ = "stmt" /\ h.alive

\* void iterator::next(): if (auto stmt = stmt_.lock()) row_ = stmt->next();
iterator_next(it, h) ==
  IF weak_lock(it, h)
  THEN [it |-> [it EXCEPT !.row_ = statement_next(h).row], h |-> statement_next(h).h,
        pulled |-> TRUE, calls |-> <<"next">>]
  ELSE [it |-> it, h |-> h, pulled |-> FALSE, calls |-> <<>>]

\* iterator(std::weak_ptr<statement> stmt) : stmt_(stmt) { next(); }
iterator_ctor(w, h) == iterator_next([used |-> TRUE, row_ |-> <<>>, stmt_ |-> w], h)

\* field_type::operator==(field_type const&): the tag, the integer view, the
\* text or blob bytes and the name are the same, and the float views are
\* closer than epsilon.  The doubles of the runs are finite and at least one
\* fraction unit apart, so closer than epsilon is the same double.
field_eq(f, g) ==
  /\ f.type_ = g.type_ /\ f.int_ = g.int_
  /\ f.str_ = g.str_ /\ f.name_ = g.name_
  /\ f.float_ = g.float_

\* Variant: std::equal alone, without size() == r.size().
row_eq_no_size(r, q) ==
  \A i \in 1..Len(r) : i <= Len(q) => field_eq(r[i], q[i])

\* row::operator== : same size and pairwise-equal fields
row_eq(r, q) == Len(r) = Len(q) /\ \A i \in 1..Len(r) : field_eq(r[i], q[i])

\* Variant: iterators equal only when they also observe the same handle.
iterator_eq_same_handle(a, b) == row_eq(a.row_, b.row_) /\ a.stmt_ = b.stmt_

\* bool iterator::operator==(iterator const& q) const { return row_ == q.row_; }
iterator_eq(a, b) == row_eq(a.row_, b.row_)

\* Variant: begin() without stmt_->first().
cursor_begin_no_first(h) == iterator_ctor("stmt", h)

\* iterator cursor::begin() { stmt_->first(); return { stmt_ }; }
cursor_begin(h) ==
  LET c == iterator_ctor("stmt", statement_first(h))
  IN  [c EXCEPT !.calls = <<"first">> \o @]

\* Variant: operator++(int) returning { stmt_ }, the constructor that pulls.
iterator_post_inc_pulling(it, h) ==
  LET n == iterator_next(it, h)
      c == iterator_ctor(it.stmt_, n.h)
  IN  [it |-> n.it, old |-> c.it, h |-> c.h, pulled |-> n.pulled,
       calls |-> n.calls \o c.calls]

\* iterator operator++(int): auto row = row_; operator++();
\* return { std::move(row), stmt_ }, the private constructor, which only
\* stores.
iterator_post_inc(it, h) ==
  LET n == iterator_next(it, h)
  IN  [it |-> n.it, old |-> [used |-> TRUE, row_ |-> it.row_, stmt_ |-> it.stmt_],
       h |-> n.h, pulled |-> n.pulled, calls |-> n.calls]

\* iterator cursor::end() { return { std::shared_ptr<statement>() }; }
cursor_end(h) == iterator_ctor("null", h)

Unused == [used |-> FALSE, row_ |-> <<>>, stmt_ |-> "null"]
Slots == 1..MaxIters

CDone(op, slot, r) ==
  [op |-> op, slot |-> slot, pulled |-> r.pulled, calls |-> r.calls,
   alive |-> stmt.alive, pre |-> its[slot], eq |-> FALSE, rhs |-> Unused]

\* it = cursor.begin()
CursorBegin(i) ==
  /\ stmt.alive
  /\ its' = [its EXCEPT ![i] = cursor_begin(stmt).it]
  /\ stmt' = cursor_begin(stmt).h
  /\ clast' = CDone("begin", i, cursor_begin(stmt))

\* it = cursor.end()
CursorEnd(i) ==
  /\ stmt.alive
  /\ its' = [its EXCEPT ![i] = cursor_end(stmt).it]
  /\ stmt' = cursor_end(stmt).h
  /\ clast' = CDone("end", i, cursor_end(stmt))

\* ++it
Advance(i) ==
  /\ its[i].used
  /\ its' = [its EXCEPT ![i] = iterator_next(its[i], stmt).it]
  /\ stmt' = iterator_next(its[i], stmt).h
  /\ clast' = CDone("advance", i, iterator_next(its[i], stmt))

\* its[j] = its[i]++
PostAdvance(i, j) ==
  /\ its[i].used /\ i # j
  /\ LET r == iterator_post_inc(its[i], stmt)
     IN  /\ its' = [its EXCEPT ![i] = r.it, ![j] = r.old]
         /\ stmt' = r.h
         /\ clast' = CDone("post", i, r)

\* its[j] = its[i]: iterator(iterator const&), operator=(iterator const&)
Copy(i, j) ==
  /\ its[i].used /\ i # j
  /\ its' = [its EXCEPT ![j] = its[i]]
  /\ clast' = CDone("copy", i, [pulled |-> FALSE, calls |-> <<>>])
  /\ UNCHANGED stmt

\* *it, it->
Star(i) ==
  /\ its[i].used
  /\ clast' = CDone("star", i, [pulled |-> FALSE, calls |-> <<>>])
  /\ UNCHANGED <<stmt, its>>

\* its[i] == its[j], its[i] != its[j]
Equals(i, j) ==
  /\ its[i].used /\ its[j].used
  /\ clast' = [CDone("equals", i, [pulled |-> FALSE, calls |-> <<>>])
                 EXCEPT !.eq = iterator_eq(its[i], its[j]), !.rhs = its[j]]
  /\ UNCHANGED <<stmt, its>>

\* the cursor goes out of scope: the last shared_ptr to the handle is gone
DestroyCursor ==
  /\ stmt.alive
  /\ stmt' = [stmt EXCEPT !.alive = FALSE]
  /\ clast' = [clast EXCEPT !.op = "destroy"]
  /\ UNCHANGED its

\* ------------------------------------------------------------------ row
\* template<class T> static T const& invalid(): one default-constructed T
invalid_field == field_default

\* A reference returned by row::operator[]: a field of the row, or the
\* sentinel.
RefField(i) == [to |-> "field", i |-> i]
RefInvalid == [to |-> "invalid", i |-> 0]
Deref(r, ref) == IF ref.to = "field" THEN r[ref.i] ELSE invalid_field

\* Variant: the bound check off by one.
row_at_index_off_by_one(r, idx) ==
  IF idx <= Len(r) THEN [to |-> "field", i |-> idx + 1] ELSE [to |-> "invalid", i |-> 0]

\* const_reference operator[](size_type idx) const   (idx counts from 0)
row_at_index(r, idx) == IF idx < Len(r) THEN RefField(idx + 1) ELSE RefInvalid

\* Variant: the scan keeps the last field that carries the name.
row_at_name_last(r, colname) ==
  LET hits == {i \in 1..Len(r) : ~colname.isnull /\ r[i].name_ = colname.chars}
  IN  IF hits = {} THEN [to |-> "invalid", i |-> 0]
      ELSE [to |-> "field", i |-> CHOOSE i \in hits : \A j \in hits : i >= j]

\* const_reference operator[](char const* colname) const
row_at_name(r, colname) ==
  LET hits == {i \in 1..Len(r) : ~colname.isnull /\ r[i].name_ = colname.chars}
  IN  IF hits = {} THEN RefInvalid
      ELSE RefField(CHOOSE i \in hits : \A j \in hits : i <= j)

LookupIndex(idx) ==
  /\ look' = [kind |-> "index", idx |-> idx, name |-> NullPtr, ref |-> row_at_index(row, idx)]
  /\ UNCHANGED row

LookupName(colname) ==
  /\ look' = [kind |-> "name", idx |-> 0, name |-> colname, ref |-> row_at_name(row, colname)]
  /\ UNCHANGED row

\* ------------------------------------------------- a caller's loop
\* for (auto it = cursor.begin(); it != cursor.end(); ++it) visit(*it);
\* run MaxPasses times over the same cursor (main: find_if, then for_each).
TravIdle == [pc |-> "start", pass |-> 1, seen |-> <<>>, first |-> <<>>]

TravBegin ==
  /\ trav.pc = "start"
  /\ CursorBegin(1)
  /\ trav' = [trav EXCEPT !.pc = "loop", !.seen = <<>>]

TravVisit ==
  /\ trav.pc = "loop"
  /\ ~iterator_eq(its[1], cursor_end(stmt).it)
  /\ Advance(1)
  /\ trav' = [trav EXCEPT !.seen = Append(trav.seen, its[1].row_)]

TravExit ==
  /\ trav.pc = "loop"
  /\ iterator_eq(its[1], cursor_end(stmt).it)
  /\ trav' = [trav EXCEPT !.pc = "done"]
  /\ UNCHANGED <<stmt, its, clast>>

TravAgain ==
  /\ trav.pc = "done"
  /\ trav.pass < MaxPasses
  /\ trav' = [trav EXCEPT !.pc = "start", !.pass = trav.pass + 1, !.first = trav.seen]
  /\ UNCHANGED <<stmt, its, clast>>

\* ---------------------------------------------------- scoped transaction
\* sqlitexx::transaction, pqsqlxx::transaction and mysqlxx::transaction are
\* the same class up to the native call that sends the command text.  ok is
\* what the native call reports.  A call returns the object after it, the
\* value returned and the native commands it issued.
\* Fields began, settled, moved, called and id are history: whether the BEGIN
\* of the transaction the object carries succeeded, which command succeeded
\* for it since, whether the object was moved from, what the last commit() or
\* rollback() on it returned, and the object whose constructor began it.
NoTx == [state |-> "none", finished_ |-> FALSE, began |-> FALSE, settled |-> "none",
         moved |-> FALSE, called |-> "no", id |-> 0]

Cmd(c, ok, id) == [cmd |-> c, ok |-> ok, id |-> id]

\* transaction(db) : db_(db) { finished_ = !begin(); }
transaction_ctor(id, ok) ==
  [t |-> [NoTx EXCEPT !.state = "live", !.finished_ = ~ok, !.began = ok, !.id = id],
   ret |-> TRUE, issued |-> <<Cmd("BEGIN", ok, id)>>]

\* Variant: commit() marks the transaction finished whatever COMMIT reports.
transaction_commit_marks_always(t, ok) ==
  IF t.finished_ THEN [t |-> [t EXCEPT !.called = "true"], ret |-> TRUE, issued |-> <<>>]
  ELSE [t |-> [t EXCEPT !.finished_ = TRUE, !.called = IF ok THEN "true" ELSE "false",
                        !.settled = IF ok THEN "commit" ELSE @],
        ret |-> ok, issued |-> <<Cmd("COMMIT", ok, t.id)>>]

\* bool commit()
transaction_commit(t, ok) ==
  IF t.finished_ THEN [t |-> [t EXCEPT !.called = "true"], ret |-> TRUE, issued |-> <<>>]
  ELSE [t |-> [t EXCEPT !.finished_ = ok, !.called = IF ok THEN "true" ELSE "false",
                        !.settled = IF ok THEN "commit" ELSE @],
        ret |-> ok, issued |-> <<Cmd("COMMIT", ok, t.id)>>]

\* bool rollback()
transaction_rollback(t, ok) ==
  IF t.finished_ THEN [t |-> [t EXCEPT !.called = "true"], ret |-> TRUE, issued |-> <<>>]
  ELSE [t |-> [t EXCEPT !.finished_ = ok, !.called = IF ok THEN "true" ELSE "false",
                        !.settled = IF ok THEN "rollback" ELSE @],
        ret |-> ok, issued |-> <<Cmd("ROLLBACK", ok, t.id)>>]

\* Variant: a destructor that leaves the transaction as it is.
transaction_dtor_plain(t, ok) ==
  [t |-> [t EXCEPT !.state = "dead"], ret |-> TRUE, issued |-> <<>>]

\* ~transaction() { rollback(); }
transaction_dtor(t, ok) ==
  LET r == transaction_rollback(t, ok)
  IN  [t |-> [r.t EXCEPT !.state = "dead", !.called = t.called],
       ret |-> r.ret, issued |-> r.issued]

\* Variant: the move constructor without t.finished_ = true.
transaction_move_keeps_source(t) ==
  [to |-> [t EXCEPT !.called = "no"], from |-> [t EXCEPT !.moved = TRUE]]

\* transaction(transaction&& t) : db_(t.db_), finished_(t.finished_) { t.finished_ = true; }
transaction_move(t) ==
  [to |-> [t EXCEPT !.called = "no"],
   from |-> [t EXCEPT !.finished_ = TRUE, !.moved = TRUE]]

TxSlots == 1..MaxTx

TDone(op, slot, r, pre) ==
  /\ tlast' = [op |-> op, slot |-> slot, ret |-> r.ret, issued |-> r.issued, pre |-> pre]
  /\ tlog' = tlog \o r.issued

TxCtor(i, ok) ==
  /\ txs[i].state = "none"
  /\ \A j \in TxSlots : j < i => txs[j].state # "none"
  /\ LET r == transaction_ctor(i, ok)
     IN  txs' = [txs EXCEPT ![i] = r.t] /\ TDone("ctor", i, r, txs[i])
  /\ UNCHANGED ntx

TxMove(i, j) ==
  /\ txs[i].state = "live" /\ txs[j].state = "none"
  /\ \A k \in TxSlots : k < j => txs[k].state # "none"
  /\ LET m == transaction_move(txs[i])
     IN  /\ txs' = [txs EXCEPT ![i] = m.from, ![j] = m.to]
         /\ TDone("move", i, [ret |-> TRUE, issued |-> <<>>], txs[i])
  /\ UNCHANGED ntx

TxCommit(i, ok) ==
  /\ txs[i].state = "live"
  /\ LET r == transaction_commit(txs[i], ok)
     IN  txs' = [txs EXCEPT ![i] = r.t] /\ TDone("commit", i, r, txs[i])
  /\ ntx' = ntx + 1

TxRollback(i, ok) ==
  /\ txs[i].state = "live"
  /\ LET r == transaction_rollback(txs[i], ok)
     IN  txs' = [txs EXCEPT ![i] = r.t] /\ TDone("rollback", i, r, txs[i])
  /\ ntx' = ntx + 1

TxDtor(i, ok) ==
  /\ txs[i].state = "live"
  /\ LET r == transaction_dtor(txs[i], ok)
     IN  txs' = [txs EXCEPT ![i] = r.t] /\ TDone("dtor", i, r, txs[i])
  /\ UNCHANGED ntx

\* ------------------------------------------------ the native database
\* What the native library keeps for one connection: the table's rows in
\* insertion order, each the id its INSERT carried and whether it is still
\* pending in the open transaction, and whether a transaction is open.
\* The connection also keeps the rowid of its last successful INSERT
\* (sqlite3_last_insert_rowid) and the number of rows its last INSERT changed
\* (sqlite3_changes); neither is reset by a later statement of another kind
\* or by a ROLLBACK.  Every native call reports success or failure (ok); a
\* failed call changes nothing.
EmptyDb == [table |-> <<>>, intx |-> FALSE, rowid |-> 0, changes |-> 0]

\* The rows a ROLLBACK leaves: those no longer pending.
RECURSIVE Committed(_)
Committed(tbl) ==
  IF tbl = <<>> THEN <<>>
  ELSE (IF Head(tbl).pending THEN <<>> ELSE <<Head(tbl)>>) \o Committed(Tail(tbl))

db_cmd(d, c) ==
  IF ~c.ok THEN d
  ELSE CASE c.cmd = "BEGIN" -> [d EXCEPT !.intx = TRUE]
         [] c.cmd = "COMMIT" ->
              [d EXCEPT !.table = [i \in 1..Len(d.table) |->
                                      [d.table[i] EXCEPT !.pending = FALSE]],
                        !.intx = FALSE]
         [] c.cmd = "ROLLBACK" ->
              [d EXCEPT !.table = Committed(d.table), !.intx = FALSE]
         [] OTHER -> d

RECURSIVE db_apply(_, _)
db_apply(d, cmds) ==
  IF cmds = <<>> THEN d ELSE db_apply(db_cmd(d, Head(cmds)), Tail(cmds))

\* An INSERT that succeeded: the row is pending while a transaction is open,
\* committed at once otherwise.
db_insert(d, id) ==
  [d EXCEPT !.table = Append(@, [id |-> id, pending |-> d.intx]),
            !.rowid = id, !.changes = 1]

\* The ids a SELECT * finds, in order.
db_select(d) == [i \in 1..Len(d.table) |-> d.table[i].id]

\* The effect of executing statement q natively.
db_exec(d, q) == IF q.kind = "insert" THEN db_insert(d, q.id) ELSE d

\* A statement handed to execute_impl: its kind, the id an INSERT carries,
\* and the number of bindings that came with it.
Stmt(kind, id, nbind) == [kind |-> kind, id |-> id, nbind |-> nbind]

\* What the native calls of one execute report.
Outcomes == [begin : BOOLEAN, prepare : BOOLEAN, bind : BOOLEAN,
             exec : BOOLEAN, commit : BOOLEAN, rollback : BOOLEAN]

\* The handle execute returns: the statement it was built for, result_,
\* whether there is something native to pull rows from, the rows a
\* materialised cursor holds, the read position, last_id_ and affected_rows_.
Handle(b, q, result, open, rows, last_id, affected) ==
  [backend |-> b, kind |-> q.kind, id |-> q.id, result |-> result, open |-> open,
   rows |-> rows, pos |-> 0, last_id_ |-> last_id, affected_rows_ |-> affected]

NoHandle == Handle("none", Stmt("select", 0, 0), SQL_OK, FALSE, <<>>, 0, 0)

Ran(issued, h, d) == [issued |-> issued, h |-> h, db |-> d]

\* ----------------------------------------------- sqlitexx::query::execute_impl
\* switch(result) in sqlitexx::statement::statement
sqlite_result(code) ==
  IF code \in {"SQLITE_OK", "SQLITE_DONE"} THEN SQL_OK ELSE SQL_UNKNOWN_ERROR

\* Variant: the constructor reads the connection's counters whatever the
\* result.
sqlite_counts_unconditional(result, d) ==
  [last_id |-> d.rowid, affected |-> d.changes]

\* last_id_ and affected_rows_ in sqlitexx::statement::statement: read from
\* the connection (sqlite3_last_insert_rowid, sqlite3_changes) when the switch
\* did not return, 0 (the members' initialisers) otherwise.
sqlite_counts(result, d) ==
  IF result = SQL_OK THEN [last_id |-> d.rowid, affected |-> d.changes]
  ELSE [last_id |-> 0, affected |-> 0]

\* transaction tr(lock); prepare; do_bind; tr.commit(); statement(lock, stmt),
\* whose constructor steps the statement; then ~transaction.
sqlite_execute_impl(d, q, o) ==
  LET tr == transaction_ctor(0, o.begin)
      d1 == db_apply(d, tr.issued)
      prepared == o.prepare
      bound == q.nbind = 0 \/ o.bind
      cm == IF prepared /\ bound THEN transaction_commit(tr.t, o.commit)
            ELSE [t |-> tr.t, ret |-> FALSE, issued |-> <<>>]
      d2 == db_apply(d1, cm.issued)
      code == IF ~prepared \/ ~o.exec THEN "SQLITE_ERROR"
              ELSE IF q.kind = "select" /\ d2.table # <<>> THEN "SQLITE_ROW"
              ELSE "SQLITE_DONE"
      d3 == IF prepared /\ o.exec THEN db_exec(d2, q) ELSE d2
      dt == transaction_dtor(cm.t, o.rollback)
      d4 == db_apply(d3, dt.issued)
  IN  Ran(tr.issued
            \o <<Cmd("prepare", prepared, 0)>>
            \o (IF prepared /\ q.nbind > 0 THEN <<Cmd("bind", o.bind, 0)>> ELSE <<>>)
            \o cm.issued
            \o (IF prepared THEN <<Cmd("step", o.exec, 0)>> ELSE <<>>)
            \o dt.issued,
          [Handle("sqlite", q, sqlite_result(code), prepared, <<>>,
                  sqlite_counts(sqlite_result(code), d3).last_id,
                  sqlite_counts(sqlite_result(code), d3).affected)
             EXCEPT !.pos = IF code = "SQLITE_ROW" THEN 1 ELSE 0],
          d4)

\* ------------------------------------------------ mysqlxx::query::execute_impl
\* transaction tr(lock); prepare; do_bind (bind_param, its result dropped,
\* then execute); tr.commit(); ~transaction; then statement(db_, stmt), which
\* reads mysql_stmt_errno.  The native execute reports an error when the
\* statement has parameters and binding them failed.
mysql_execute_impl(d, q, o) ==
  LET tr == transaction_ctor(0, o.begin)
      d1 == db_apply(d, tr.issued)
      prepared == o.prepare
      executed == prepared /\ (q.nbind = 0 \/ o.bind) /\ o.exec
      d2 == IF executed THEN db_exec(d1, q) ELSE d1
      cm == IF executed THEN transaction_commit(tr.t, o.commit)
            ELSE [t |-> tr.t, ret |-> FALSE, issued |-> <<>>]
      d3 == db_apply(d2, cm.issued)
      dt == transaction_dtor(cm.t, o.rollback)
      d4 == db_apply(d3, dt.issued)
  IN  Ran(tr.issued
            \o <<Cmd("prepare", prepared, 0)>>
            \o (IF prepared /\ q.nbind > 0 THEN <<Cmd("bind", o.bind, 0)>> ELSE <<>>)
            \o (IF prepared THEN <<Cmd("execute", executed, 0)>> ELSE <<>>)
            \o cm.issued \o dt.issued,
          Handle("mysql", q, IF executed THEN SQL_OK ELSE SQL_UNKNOWN_ERROR,
                 executed /\ q.kind = "select",
                 IF executed /\ q.kind = "select" THEN db_select(d2) ELSE <<>>,
                 IF executed /\ q.kind = "insert" THEN q.id ELSE 0,
                 IF executed /\ q.kind = "insert" THEN 1 ELSE 0),
          d4)

\* ------------------------------------------------ pqsqlxx::query::execute_impl
\* transaction tr(lock); PQexec or PQexecParams, one native call that
\* parses, binds and executes; tr.commit() on PGRES_COMMAND_OK; ~transaction;
\* then statement(db_, res, cursor).
pq_execute_impl(d, q, o) ==
  LET tr == transaction_ctor(0, o.begin)
      d1 == db_apply(d, tr.issued)
      executed == o.prepare /\ (q.nbind = 0 \/ o.bind) /\ o.exec
      d2 == IF executed THEN db_exec(d1, q) ELSE d1
      cm == IF executed THEN transaction_commit(tr.t, o.commit)
            ELSE [t |-> tr.t, ret |-> FALSE, issued |-> <<>>]
      d3 == db_apply(d2, cm.issued)
      dt == transaction_dtor(cm.t, o.rollback)
      d4 == db_apply(d3, dt.issued)
  IN  Ran(tr.issued
            \o <<Cmd(IF q.nbind = 0 THEN "PQexec" ELSE "PQexecParams", executed, 0)>>
            \o cm.issued \o dt.issued,
          Handle("pq", q, IF executed THEN SQL_OK ELSE SQL_UNKNOWN_ERROR,
                 executed,
                 IF executed /\ q.kind = "select" THEN db_select(d2) ELSE <<>>,
                 IF executed /\ q.kind = "insert" THEN q.id ELSE 0,
                 IF executed /\ q.kind = "insert" THEN 1 ELSE 0),
          d4)

Backends == {"sqlite", "mysql", "pq"}

execute_impl(b, d, q, o) ==
  CASE b = "sqlite" -> sqlite_execute_impl(d, q, o)
    [] b = "mysql" -> mysql_execute_impl(d, q, o)
    [] OTHER -> pq_execute_impl(d, q, o)

\* statement::next on the select's handle: SQLite steps the live table, the
\* other two read the cursor materialised when the statement was executed.
pull(b, d, h) ==
  LET src == IF b = "sqlite" THEN db_select(d) ELSE h.rows
  IN  IF h.kind = "select" /\ h.pos < Len(src)
      THEN [row |-> src[h.pos + 1], h |-> [h EXCEPT !.pos = @ + 1]]
      ELSE [row |-> 0, h |-> h]

\* What a call on the handle did: the handle and the connection after it,
\* the row it returned (0: the empty Row) and the native calls it made.
Pulled(h, d, r, issued) == [h |-> h, db |-> d, row |-> r, issued |-> issued]

\* sqlitexx::statement::first: sqlite3_reset when there is a statement.
sqlite_first(d, h) ==
  IF ~h.open THEN Pulled(h, d, 0, <<>>)
  ELSE Pulled([h EXCEPT !.pos = 0], d, 0, <<Cmd("reset", TRUE, 0)>>)

\* Variant: next() steps only a statement that has a result set.
sqlite_next_select_only(d, h, ok) ==
  IF ~h.open \/ h.kind # "select" THEN Pulled(h, d, 0, <<>>)
  ELSE IF ~ok THEN Pulled(h, d, 0, <<Cmd("step", FALSE, 0)>>)
  ELSE LET p == pull("sqlite", d, h)
       IN  Pulled(p.h, d, p.row, <<Cmd("step", TRUE, 0)>>)

\* sqlitexx::statement::next: sqlite3_step when there is a statement.  The
\* step of a statement without a result set executes it (again), outside any
\* transaction of the library's; it returns SQLITE_DONE and the Row is empty.
sqlite_next(d, h, ok) ==
  IF ~h.open THEN Pulled(h, d, 0, <<>>)
  ELSE IF ~ok THEN Pulled(h, d, 0, <<Cmd("step", FALSE, 0)>>)
  ELSE IF h.kind = "select"
       THEN LET p == pull("sqlite", d, h)
            IN  Pulled(p.h, d, p.row, <<Cmd("step", TRUE, 0)>>)
       ELSE Pulled(h, db_exec(d, Stmt(h.kind, h.id, 0)), 0, <<Cmd("step", TRUE, 0)>>)

\* mysqlxx::statement::first: mysql_stmt_data_seek(stmt_, 0), always.
mysql_first(d, h) ==
  Pulled([h EXCEPT !.pos = 0], d, 0, <<Cmd("data_seek", TRUE, 0)>>)

\* mysqlxx::statement::next: nothing without result metadata (res_), else
\* mysql_stmt_fetch.
mysql_next(d, h, ok) ==
  IF ~h.open THEN Pulled(h, d, 0, <<>>)
  ELSE IF ~ok THEN Pulled(h, d, 0, <<Cmd("fetch", FALSE, 0)>>)
  ELSE LET p == pull("mysql", d, h)
       IN  Pulled(p.h, d, p.row, <<Cmd("fetch", TRUE, 0)>>)

\* pqsqlxx::statement::first: PQexec of "MOVE BACKWARD ALL in <cursor>" when
\* the constructor reached the end (result_ is SQL_OK).  Without a cursor the
\* command is malformed and the server rejects it.
pq_first(d, h) ==
  IF h.result # SQL_OK THEN Pulled(h, d, 0, <<>>)
  ELSE Pulled([h EXCEPT !.pos = 0], d, 0, <<Cmd("PQexec", h.kind = "select", 0)>>)

\* pqsqlxx::statement::next: PQexec of "FETCH NEXT in <cursor>" when result_
\* is SQL_OK; a row only on PGRES_TUPLES_OK with a tuple.
pq_next(d, h, ok) ==
  IF h.result # SQL_OK THEN Pulled(h, d, 0, <<>>)
  ELSE IF ~ok \/ h.kind # "select" THEN Pulled(h, d, 0, <<Cmd("PQexec", FALSE, 0)>>)
  ELSE LET p == pull("pq", d, h)
       IN  Pulled(p.h, d, p.row, <<Cmd("PQexec", TRUE, 0)>>)

handle_first(d, h) ==
  CASE h.backend = "sqlite" -> sqlite_first(d, h)
    [] h.backend = "mysql" -> mysql_first(d, h)
    [] OTHER -> pq_first(d, h)

handle_next(d, h, ok) ==
  CASE h.backend = "sqlite" -> sqlite_next(d, h, ok)
    [] h.backend = "mysql" -> mysql_next(d, h, ok)
    [] OTHER -> pq_next(d, h, ok)

\* One caller's execute on a connection: the whole of execute_impl and the
\* construction of the handle.
BackendExecute(q, o) ==
  LET r == execute_impl(backend, db, q, o)
  IN  /\ db' = r.db
      /\ hd' = r.h
      /\ np' = 0
      /\ xlast' = [op |-> "execute", q |-> q, o |-> o, issued |-> r.issued, row |-> 0,
                   h |-> r.h, pre |-> db]
      /\ nx' = nx + 1
      /\ UNCHANGED backend

XDone(op, p) ==
  /\ db' = p.db
  /\ hd' = p.h
  /\ xlast' = [op |-> op, q |-> xlast.q, o |-> xlast.o, issued |-> p.issued,
               row |-> p.row, h |-> hd, pre |-> db]
  /\ np' = np + 1
  /\ UNCHANGED <<backend, nx>>

\* The caller's first() on the handle it holds.
BackendFirst ==
  /\ hd # NoHandle
  /\ XDone("first", handle_first(db, hd))

\* The caller's next() on the handle it holds; ok is what the native pull
\* reports.
BackendNext(ok) ==
  /\ hd # NoHandle
  /\ XDone("next", handle_next(db, hd, ok))

\* ------------------------------------------------- pqsqlxx::pq_build_query
\* A cursor name cursor_<k> is held as k; 0 is the empty name of a statement
\* that returns no rows.

\* if (query_has_results(query)) { <counter i>; r << "cursor_" << ++i; }
\* With USE_SHARED_CONNECTION the counter is std::atomic<size_t> i(0), a
\* local of the call; without it, static size_t i = 0.
pq_cursor_name(has_results, sh, i) ==
  IF ~has_results THEN [name |-> 0, i |-> i]
  ELSE IF sh THEN [name |-> 1, i |-> i]
  ELSE [name |-> i + 1, i |-> i + 1]

\* The server's answer to DECLARE <name> ... WITH HOLD: an error when a
\* cursor of that name is open on the connection.
pq_declare(open, name) == name \notin open

\* The handle of an execute: the cursor name its commands carry, and whether
\* close_, fetch_next_ and move_first_ were set (PGRES_COMMAND_OK).
PqHandle(name, ok) == [name |-> name, ok |-> ok]

\* pqsqlxx::query::execute_impl of one statement: pq_build_query, then the
\* native execution, then statement(db_, res, cursor).
PqExecute(has_results) ==
  LET c == pq_cursor_name(has_results, shared, pqi)
      ok == ~has_results \/ pq_declare(cursors, c.name)
  IN  /\ pqi' = c.i
      /\ cursors' = IF has_results /\ ok THEN cursors \cup {c.name} ELSE cursors
      /\ held' = Append(held, PqHandle(c.name, ok))
      /\ klast' = [op |-> "execute", results |-> has_results, name |-> c.name,
                   ok |-> ok, open |-> cursors]
      /\ UNCHANGED shared

\* ~statement of the k-th handle held: if (close_.empty()) return;
\* PQexec(CLOSE <cursor>).  CLOSE with the empty name is rejected.
PqDestroy(k) ==
  /\ k \in 1..Len(held)
  /\ cursors' = IF held[k].ok THEN cursors \ {held[k].name} ELSE cursors
  /\ held' = [j \in 1..(Len(held) - 1) |-> IF j < k THEN held[j] ELSE held[j + 1]]
  /\ klast' = [op |-> "destroy", results |-> held[k].name # 0, name |-> held[k].name,
               ok |-> held[k].ok, open |-> cursors]
  /\ UNCHANGED <<shared, pqi>>

KInit(sh) ==
  /\ shared = sh /\ pqi = 0 /\ cursors = {} /\ held = <<>>
  /\ klast = [op |-> "none", results |-> FALSE, name |-> 0, ok |-> TRUE, open |-> {}]

KIdle == KInit(FALSE)

\* ------------------------------------------------------ query_has_results
\* A query text is held as its pieces: a piece is a run of word characters
\* (letters, digits, underscore) or one other character.  Two adjacent word
\* pieces form one longer word.
WordPieces == {"SELECT", "select", "DESC", "SHOW", "EXPLAIN", "DESCRIBE", "x"}

\* icase: the keyword a piece spells, letter case aside.
Upper(piece) == IF piece = "select" THEN "SELECT" ELSE piece

\* \b on both sides of piece i: no word character next to it.
WholeWord(text, i) ==
  /\ i = 1 \/ text[i - 1] \notin WordPieces
  /\ i = Len(text) \/ text[i + 1] \notin WordPieces

\* [^\(]*\) matches right after piece i: a ")" follows with no "(" before it.
ClosesAfter(text, i) ==
  \E j \in (i + 1)..Len(text) :
    text[j] = ")" /\ \A k \in (i + 1)..(j - 1) : text[k] # "("

\* Variant: the expressions compiled without icase.
query_has_results_case_sensitive(text) ==
  \E i \in 1..Len(text) :
    /\ WholeWord(text, i)
    /\ \/ text[i] \in {"DESC", "SHOW", "EXPLAIN", "DESCRIBE"}
       \/ text[i] = "SELECT" /\ ~ClosesAfter(text, i)

\* regex_search with each of the five expressions in turn: the first four
\* are a whole-word keyword, the fifth is a whole-word SELECT not followed
\* by [^\(]*\).
query_has_results(text) ==
  \E i \in 1..Len(text) :
    /\ WholeWord(text, i)
    /\ \/ Upper(text[i]) \in {"DESC", "SHOW", "EXPLAIN", "DESCRIBE"}
       \/ Upper(text[i]) = "SELECT" /\ ~ClosesAfter(text, i)

PIdle == arg = <<>> /\ ret = <<>>

\* A caller classifies the text it holds.
Classify ==
  /\ ret = <<>>
  /\ ret' = <<query_has_results(arg)>>
  /\ UNCHANGED arg

\* ------------------------------------------- mysqlxx::query::do_bind, integers
\* A std::int64_t is held as two limbs, its value being hi * 2^16 + lo with
\* 0 <= lo < 2^16, so that values beyond 32 bits keep their order.
I64(hi, lo) == [hi |-> hi, lo |-> lo]

I64Less(a, b) == a.hi < b.hi \/ (a.hi = b.hi /\ a.lo < b.lo)

\* a + k for a small k.
I64Plus(a, k) ==
  LET l == a.lo + k
  IN  CASE l < 0 -> I64(a.hi - 1, l + 2^16)
        [] l >= 2^16 -> I64(a.hi + 1, l - 2^16)
        [] OTHER -> I64(a.hi, l)

\* std::numeric_limits<T>::min() and max().  Whether plain char is signed is
\* the build's choice (the ABI or -funsigned-char), not the source's.
int_max == I64(2^15 - 1, 2^16 - 1)
int_min == I64(-(2^15), 0)
short_max == I64(0, 2^15 - 1)
short_min == I64(-1, 2^15)
char_max(char_signed) == IF char_signed THEN I64(0, 2^7 - 1) ELSE I64(0, 2^8 - 1)
char_min(char_signed) == IF char_signed THEN I64(-1, 2^16 - 2^7) ELSE I64(0, 0)

\* The buffer_type chosen for an SQL_INTEGER binding.
mysql_int_tier(i64, char_signed) ==
  IF I64Less(int_max, i64) \/ I64Less(i64, int_min) THEN "MYSQL_TYPE_LONGLONG"
  ELSE IF I64Less(short_max, i64) \/ I64Less(i64, short_min) THEN "MYSQL_TYPE_LONG"
  ELSE IF I64Less(char_max(char_signed), i64) \/ I64Less(i64, char_min(char_signed))
       THEN "MYSQL_TYPE_SHORT"
  ELSE "MYSQL_TYPE_TINY"

\* do_bind reaches an SQL_INTEGER binding.
BindInteger ==
  /\ ret = <<>>
  /\ ret' = <<mysql_int_tier(arg.i64, arg.char_signed)>>
  /\ UNCHANGED arg

\* ------------------------------------------ Blob text, sent and read back
\* A byte is held as 0..255, a text as its characters.
HexDigits == <<"0", "1", "2", "3", "4", "5", "6", "7", "8", "9",
               "a", "b", "c", "d", "e", "f">>
HexValue(c) == (CHOOSE k \in 1..Len(HexDigits) : HexDigits[k] = c) - 1

\* s << (int(v)&0xFF) under std::hex and setfill('0'): no width is set, so
\* the value is written with as many digits as it has.
hex_of_byte(v) ==
  IF v < 16 THEN <<HexDigits[v + 1]>>
  ELSE <<HexDigits[(v \div 16) + 1], HexDigits[(v % 16) + 1]>>

RECURSIVE hex_of_bytes(_)
hex_of_bytes(bytes) ==
  IF bytes = <<>> THEN <<>> ELSE hex_of_byte(Head(bytes)) \o hex_of_bytes(Tail(bytes))

\* field_type::toString, case SQL_BLOB
blob_toString(bytes) == <<"\\", "x">> \o hex_of_bytes(bytes)

\* std::strtol(buf, nullptr, 16) of the one or two digits in buf
strtol16(buf) ==
  IF Len(buf) = 1 THEN HexValue(buf[1]) ELSE HexValue(buf[1]) * 16 + HexValue(buf[2])

\* for (i = 2; i < len; i += 2) { char buf[3] = { data[i], data[i+1] }; ...
\* data[len] is the terminating zero, which ends buf after one digit.
RECURSIVE pq_hex_decode(_, _)
pq_hex_decode(data, i) ==
  IF i > Len(data) THEN <<>>
  ELSE <<strtol16(SubSeq(data, i, IF i + 1 <= Len(data) THEN i + 1 ELSE i))>>
         \o pq_hex_decode(data, i + 2)

\* pqsqlxx::statement::next, the branch len > 1 && data[0] == '\\' &&
\* data[1] == 'x': the bytes of the blob it builds.
pq_decode_blob(data) == pq_hex_decode(data, 3)

\* execute_impl hands bind.toString() of a bound Blob to the server.
SendBlob ==
  /\ arg.sent = <<>>
  /\ arg' = [arg EXCEPT !.sent = <<blob_toString(arg.blob)>>]
  /\ UNCHANGED ret

\* next() reads that text back.
ReadBlob ==
  /\ arg.sent # <<>> /\ ret = <<>>
  /\ ret' = <<pq_decode_blob(arg.sent[1])>>
  /\ UNCHANGED arg

\* ------------------------------- field_type::operator== with native integers
\* short(int_), int(int_), char(int_): the low 16, 32 or 8 bits of the stored
\* value, read as a value of the native type.
narrow_short(v) == I64(IF v.lo >= 2^15 THEN -1 ELSE 0, v.lo)

narrow_int(v) ==
  LET h == v.hi % 2^16
  IN  I64(IF h >= 2^15 THEN h - 2^16 ELSE h, v.lo)

narrow_char(v, char_signed) ==
  LET b == v.lo % 2^8
  IN  IF char_signed /\ b >= 2^7 THEN I64(-1, 2^16 - 2^8 + b) ELSE I64(0, b)

\* bool operator==(char i8), operator==(short i16), operator==(int i32)
field_eq_native(f, ctype, n, char_signed) ==
  /\ f.type_ = SQL_INTEGER
  /\ n = CASE ctype = "char" -> narrow_char(f.int_, char_signed)
            [] ctype = "short" -> narrow_short(f.int_)
            [] OTHER -> narrow_int(f.int_)

\* A caller compares a Value with a native integer.
CompareNative ==
  /\ ret = <<>>
  /\ ret' = <<field_eq_native(arg.f, arg.ctype, arg.n, arg.char_signed)>>
  /\ UNCHANGED arg

\* ------------------------------------------------- db::open and db::close
\* What the native connect reports: "null" (no handle is returned), "bad" (a
\* handle is returned but the connection failed: sqlite3_open_v2 with an
\* error code, PQstatus not CONNECTION_OK, mysql_real_connect or the "use"
\* query failing) or "ok".  natives holds, for each handle the library
\* handed out, how often the native close was called on it.
Connects == {"null", "bad", "ok"}

NoDb == [exists |-> FALSE, db_ |-> 0, open_ |-> FALSE]

Opened(c, r, issued, nat) == [c |-> c, ret |-> r, issued |-> issued, natives |-> nat]

native_close(nat, h) == [nat EXCEPT ![h] = @ + 1]

\* Variant: close() without the test of open_.
db_close_unguarded(b, c, nat) ==
  IF c.db_ = 0 THEN Opened([c EXCEPT !.open_ = FALSE], TRUE, <<Cmd("close", TRUE, 0)>>, nat)
  ELSE Opened([c EXCEPT !.open_ = FALSE], TRUE, <<Cmd("close", TRUE, c.db_)>>,
              native_close(nat, c.db_))

\* db::close: if (!open_) return; native close; open_ = false; db_ = nullptr.
db_close(b, c, nat) ==
  IF ~c.open_ THEN Opened(c, TRUE, <<>>, nat)
  ELSE Opened([c EXCEPT !.open_ = FALSE, !.db_ = 0], TRUE,
              <<Cmd("close", TRUE, c.db_)>>, native_close(nat, c.db_))

\* db::open: if (open_) return true; native connect; open_ from its result.
\* SQLite keeps whatever handle sqlite3_open_v2 left in db_; PostgreSQL and
\* MySQL close the handle of a failed connection and reset db_.
db_open(b, c, nat, o) ==
  IF c.open_ THEN Opened(c, TRUE, <<>>, nat)
  ELSE LET h == Len(nat) + 1
           got == IF o = "null" THEN nat ELSE Append(nat, 0)
           conn == <<Cmd("connect", o = "ok", IF o = "null" THEN 0 ELSE h)>>
       IN  CASE o = "ok" ->
                  Opened([c EXCEPT !.db_ = h, !.open_ = TRUE], TRUE, conn, got)
             [] o = "null" ->
                  Opened([c EXCEPT !.db_ = 0, !.open_ = FALSE], FALSE, conn, got)
             [] OTHER ->
                  IF b = "sqlite"
                  THEN Opened([c EXCEPT !.db_ = h, !.open_ = FALSE], FALSE, conn, got)
                  ELSE Opened([c EXCEPT !.db_ = 0, !.open_ = FALSE], FALSE,
                              conn \o <<Cmd("close", TRUE, h)>>, native_close(got, h))

\* connection::create: the connection's constructor builds the db and opens
\* it; PostgreSQL and MySQL reset the pointer when the db is not open (the
\* db is destroyed, its destructor calls close()), SQLite returns the
\* connection as it is.
connection_create(b, nat, o) ==
  LET op == db_open(b, [exists |-> TRUE, db_ |-> 0, open_ |-> FALSE], nat, o)
  IN  IF b = "sqlite" \/ op.c.open_
      THEN [c |-> op.c, con |-> "connection", issued |-> op.issued, natives |-> op.natives]
      ELSE LET cl == db_close(b, op.c, op.natives)
           IN  [c |-> [cl.c EXCEPT !.exists = FALSE], con |-> "null",
                issued |-> op.issued \o cl.issued, natives |-> cl.natives]

ODone(op, pre, r, issued) ==
  olast' = [op |-> op, pre |-> pre, ret |-> r, issued |-> issued, n |-> olast.n + 1]

Create(o) ==
  /\ con = "unset"
  /\ LET r == connection_create(backend, natives, o)
     IN  /\ cn' = r.c /\ con' = r.con /\ natives' = r.natives
         /\ ODone("create", cn, o = "ok", r.issued)
  /\ UNCHANGED backend

Open(o) ==
  /\ cn.exists
  /\ LET r == db_open(backend, cn, natives, o)
     IN  cn' = r.c /\ natives' = r.natives /\ ODone("open", cn, r.ret, r.issued)
  /\ UNCHANGED <<backend, con>>

Close ==
  /\ cn.exists
  /\ LET r == db_close(backend, cn, natives)
     IN  cn' = r.c /\ natives' = r.natives /\ ODone("close", cn, r.ret, r.issued)
  /\ UNCHANGED <<backend, con>>

\* ~db() { close(); }
Destroy ==
  /\ cn.exists
  /\ LET r == db_close(backend, cn, natives)
     IN  /\ cn' = [r.c EXCEPT !.exists = FALSE] /\ natives' = r.natives
         /\ ODone("destroy", cn, r.ret, r.issued)
  /\ UNCHANGED <<backend, con>>

OIdle ==
  /\ cn = NoDb /\ con = "unset" /\ natives = <<>>
  /\ olast = [op |-> "none", pre |-> NoDb, ret |-> TRUE, issued |-> <<>>, n |-> 0]

\* ------------------------------------------- workers on a shared connection
\* With USE_SHARED_CONNECTION db::operator()() returns a connection_lock,
\* whose constructor locks db::mutex_ and whose destructor unlocks it.  Each
\* operation of a worker is a script of steps: "acq" (a connection_lock is
\* constructed), "call" (the native calls made at that point) and "rel" (the
\* connection_lock is destroyed).
Locked == <<"acq", "call", "rel">>
Bare == <<"call">>
Nothing == <<>>

Phases == <<"insert", "insert_ctor", "insert_dtor", "select", "select_ctor",
            "find_first", "find_next", "first", "next", "select_dtor", "done">>

\* Variant: mysqlxx::statement constructed while execute_impl's
\* connection_lock is still alive.
script_ctor_under_lock(b, phase, h) ==
  CASE phase \in {"insert", "select"} ->
         IF b = "mysql" THEN <<"acq", "call", "acq", "call", "rel", "rel">> ELSE Locked
    [] phase \in {"insert_ctor", "select_ctor"} ->
         IF b = "pq" /\ h.result # SQL_OK THEN Locked ELSE Nothing
    [] phase \in {"insert_dtor", "select_dtor"} ->
         CASE b = "sqlite" -> IF h.open THEN Bare ELSE Nothing
           [] b = "mysql" -> Locked
           [] OTHER -> IF h.result = SQL_OK THEN Locked ELSE Nothing
    [] phase \in {"find_first", "find_next", "first", "next"} ->
         CASE b = "sqlite" -> IF h.open THEN Bare ELSE Nothing
           [] b = "mysql" -> IF phase \in {"find_first", "first"} \/ h.open
                             THEN Locked ELSE Nothing
           [] OTHER -> IF h.open THEN Locked ELSE Nothing
    [] OTHER -> Nothing

\* The steps of one operation on backend b; h is the handle it works on.
\*   insert, select          : query::execute_impl (for SQLite the handle's
\*                             constructor runs inside it, under its lock)
\*   insert_ctor, select_ctor: the handle's constructor, after execute_impl
\*   find_first, find_next   : cursor.begin() of std::find_if, which stops at
\*                             the first row (every row matches)
\*   first, next             : cursor.begin() and ++ of std::for_each
\*   insert_dtor, select_dtor: statement::~statement
script(b, phase, h) ==
  CASE phase \in {"insert", "select"} -> Locked
    [] phase \in {"insert_ctor", "select_ctor"} ->
         CASE b = "sqlite" -> Nothing
           [] b = "mysql" -> Locked
           [] OTHER -> IF h.result # SQL_OK THEN Locked ELSE Nothing
    [] phase \in {"insert_dtor", "select_dtor"} ->
         CASE b = "sqlite" -> IF h.open THEN Bare ELSE Nothing
           [] b = "mysql" -> Locked
           [] OTHER -> IF h.result = SQL_OK THEN Locked ELSE Nothing
    [] phase \in {"find_first", "find_next", "first", "next"} ->
         CASE b = "sqlite" -> IF h.open THEN Bare ELSE Nothing
           [] b = "mysql" -> IF phase \in {"find_first", "first"} \/ h.open
                             THEN Locked ELSE Nothing
           [] OTHER -> IF h.open THEN Locked ELSE Nothing
    [] OTHER -> Nothing

\* A worker: the operation it is in and the step it is at, the handles of
\* its insert and of its select, whether the transaction commands of its
\* insert all succeeded, the row its iterator holds (0: the empty row) and
\* the rows its loop has visited.
Worker0 == [phase |-> 1, ip |-> 1, ins |-> NoHandle, insTxOk |-> TRUE,
            sel |-> NoHandle, row |-> 0, got |-> <<>>]

HandleOf(w) == IF Phases[w.phase] \in {"insert", "insert_ctor", "insert_dtor"}
               THEN w.ins ELSE w.sel

ScriptOf(b, w) == script(b, Phases[w.phase], HandleOf(w))

\* Where a worker stands once a step is done: past the end of a script the
\* next operation starts; the loop repeats next() until the row is empty.
RECURSIVE settle(_, _)
settle(b, w) ==
  IF Phases[w.phase] = "done" \/ w.ip <= Len(ScriptOf(b, w)) THEN w
  ELSE IF Phases[w.phase] = "next" /\ w.row # 0 /\ ScriptOf(b, w) # <<>>
       THEN [w EXCEPT !.ip = 1]
  ELSE settle(b, [w EXCEPT !.phase = @ + 1, !.ip = 1, !.row = 0])

StepOf(b, w) == IF Phases[w.phase] = "done" THEN "none" ELSE ScriptOf(b, w)[w.ip]

Threads == 1..NThreads

FalseCount(o) ==
  (IF o.begin THEN 0 ELSE 1) + (IF o.prepare THEN 0 ELSE 1) + (IF o.bind THEN 0 ELSE 1)
  + (IF o.exec THEN 0 ELSE 1) + (IF o.commit THEN 0 ELSE 1) + (IF o.rollback THEN 0 ELSE 1)

\* connection_lock(std::mutex& mutex, T* value) { mutex_.lock(); }
Acquire(t) ==
  /\ StepOf(backend, th[t]) = "acq"
  /\ mutex = 0
  /\ mutex' = t
  /\ th' = [th EXCEPT ![t] = settle(backend, [@ EXCEPT !.ip = @ + 1])]
  /\ UNCHANGED <<backend, db, wlast, faults>>

\* ~connection_lock() { mutex_.unlock(); }
Release(t) ==
  /\ StepOf(backend, th[t]) = "rel"
  /\ mutex' = 0
  /\ th' = [th EXCEPT ![t] = settle(backend, [@ EXCEPT !.ip = @ + 1])]
  /\ UNCHANGED <<backend, db, wlast, faults>>

WDone(t) ==
  wlast' = [op |-> "call", t |-> t, phase |-> Phases[th[t].phase],
            locked |-> mutex = t, busy |-> mutex \notin {0, t}]

\* The native calls of execute_impl: the worker's insert carries its id and
\* its bindings, its select carries none.
CallExecute(t, o) ==
  /\ StepOf(backend, th[t]) = "call"
  /\ Phases[th[t].phase] \in {"insert", "select"}
  /\ HandleOf(th[t]) = NoHandle
  /\ faults + FalseCount(o) <= MaxFaults
  /\ LET ins == Phases[th[t].phase] = "insert"
         q == IF ins THEN Stmt("insert", t, 1) ELSE Stmt("select", 0, 0)
         r == execute_impl(backend, db, q, o)
         txok == \A k \in 1..Len(r.issued) :
                   r.issued[k].cmd \in {"BEGIN", "COMMIT", "ROLLBACK"} => r.issued[k].ok
         w == IF ins THEN [th[t] EXCEPT !.ins = r.h, !.insTxOk = txok, !.ip = @ + 1]
              ELSE [th[t] EXCEPT !.sel = r.h, !.ip = @ + 1]
     IN  /\ db' = r.db
         /\ th' = [th EXCEPT ![t] = settle(backend, w)]
  /\ faults' = faults + FalseCount(o)
  /\ WDone(t)
  /\ UNCHANGED <<backend, mutex>>

\* The native calls of statement::next.
CallNext(t) ==
  /\ StepOf(backend, th[t]) = "call"
  /\ Phases[th[t].phase] \in {"find_next", "next"}
  /\ LET p == pull(backend, db, th[t].sel)
         w == [th[t] EXCEPT !.sel = p.h, !.row = p.row, !.ip = @ + 1,
                            !.got = IF p.row = 0 \/ Phases[th[t].phase] = "find_next"
                                    THEN @ ELSE Append(@, p.row)]
     IN  th' = [th EXCEPT ![t] = settle(backend, w)]
  /\ WDone(t)
  /\ UNCHANGED <<backend, db, mutex, faults>>

\* The native calls of statement::first (the cursor is rewound), of a
\* handle's constructor and of its destructor.
CallOther(t) ==
  /\ StepOf(backend, th[t]) = "call"
  /\ ~(Phases[th[t].phase] \in {"insert", "select"} /\ HandleOf(th[t]) = NoHandle)
  /\ Phases[th[t].phase] \notin {"find_next", "next"}
  /\ LET w == IF Phases[th[t].phase] \in {"find_first", "first"}
              THEN [th[t] EXCEPT !.sel.pos = 0, !.ip = @ + 1]
              ELSE [th[t] EXCEPT !.ip = @ + 1]
     IN  th' = [th EXCEPT ![t] = settle(backend, w)]
  /\ WDone(t)
  /\ UNCHANGED <<backend, db, mutex, faults>>

WorkerStep(t) ==
  \/ Acquire(t)
  \/ Release(t)
  \/ \E o \in Outcomes : CallExecute(t, o)
  \/ CallNext(t)
  \/ CallOther(t)

\* ------------------------------------- the identifier an insert reports
\* Threads that each execute one INSERT through the shared connection and
\* keep its cursor.  A thread is at: "start"; "locked" (execute_impl holds
\* the connection_lock); "executed" (the statement ran natively); "between"
\* (execute_impl's lock is released, the handle not yet constructed); "ctor"
\* (the handle's constructor is about to read the identifier and the row
\* count); "read"; "held" (the caller holds the cursor); "done".
IdWorker0 == [pc |-> "start", h |-> NoHandle, gap |-> FALSE, reps |-> 0]

AllOk == [begin |-> TRUE, prepare |-> TRUE, bind |-> TRUE, exec |-> TRUE,
          commit |-> TRUE, rollback |-> TRUE]

\* History: the threads whose statement ran and whose handle has not read
\* its counters yet see a native call of thread t come in between.
Interleaved(w, t) ==
  [u \in Threads |->
     IF u # t /\ w[u].pc \in {"executed", "between", "ctor"}
     THEN [w[u] EXCEPT !.gap = TRUE] ELSE w[u]]

\* auto&& lock = db_() in execute_impl; for MySQL also in the handle's
\* constructor, which runs after execute_impl's lock is gone.
IdAcquire(t) ==
  /\ th[t].pc = "start" \/ (backend = "mysql" /\ th[t].pc = "between")
  /\ mutex = 0
  /\ mutex' = t
  /\ th' = [th EXCEPT ![t].pc = IF th[t].pc = "start" THEN "locked" ELSE "ctor"]
  /\ UNCHANGED <<backend, db>>

\* The native execution of the INSERT, inside execute_impl's transaction.
\* SQLite goes on to the handle's constructor under the same lock.
IdExecute(t) ==
  /\ th[t].pc = "locked"
  /\ LET r == execute_impl(backend, db, Stmt("insert", t, 0), AllOk)
     IN  /\ db' = r.db
         /\ th' = Interleaved([th EXCEPT ![t].h = r.h,
                                         ![t].pc = IF backend = "sqlite" THEN "ctor"
                                                   ELSE "executed"], t)
  /\ UNCHANGED <<backend, mutex>>

\* ~connection_lock
IdRelease(t) ==
  /\ mutex = t
  /\ th[t].pc \in {"executed", "read"}
  /\ mutex' = 0
  /\ th' = [th EXCEPT ![t].pc = IF th[t].pc = "executed" THEN "between" ELSE "held"]
  /\ UNCHANGED <<backend, db>>

\* last_id_ and affected_rows_ in the handle's constructor.  SQLite asks the
\* connection (sqlite3_last_insert_rowid(db_), sqlite3_changes(db_)); MySQL
\* asks the statement (mysql_stmt_insert_id(stmt_), under the lock taken
\* again); PostgreSQL reads the result object it was given, without a lock.
IdRead(t) ==
  /\ \/ backend \in {"sqlite", "mysql"} /\ th[t].pc = "ctor"
     \/ backend = "pq" /\ th[t].pc = "between"
  /\ LET h == th[t].h
         c == sqlite_counts(h.result, db)
         hr == IF backend = "sqlite"
               THEN [h EXCEPT !.last_id_ = c.last_id, !.affected_rows_ = c.affected]
               ELSE h
         w == [th EXCEPT ![t].h = hr, ![t].pc = IF backend = "pq" THEN "held" ELSE "read"]
     IN  th' = IF backend = "pq" THEN w ELSE Interleaved(w, t)
  /\ UNCHANGED <<backend, db, mutex>>

\* The caller iterates the cursor it holds: cursor.begin(), that is
\* statement::first and statement::next.  SQLite takes no lock for them;
\* PostgreSQL takes and releases it around each command; MySQL's next
\* returns at once on a handle without result metadata.
IdRepeat(t) ==
  /\ th[t].pc = "held" /\ th[t].reps < MaxRepeats
  /\ backend = "pq" => mutex = 0
  /\ LET f == handle_first(db, th[t].h)
         p == handle_next(f.db, f.h, TRUE)
         w == [th EXCEPT ![t].h = p.h, ![t].reps = @ + 1]
     IN  /\ db' = p.db
         /\ th' = IF f.issued \o p.issued # <<>> THEN Interleaved(w, t) ELSE w
  /\ UNCHANGED <<backend, mutex>>

\* The cursor goes out of scope.
IdFinish(t) ==
  /\ th[t].pc = "held"
  /\ th' = [th EXCEPT ![t].pc = "done"]
  /\ UNCHANGED <<backend, db, mutex>>

\* ---------------------------------------------------------------- inputs
\* The builder runs: a few arguments of every kind operator<< accepts.
QCtorTexts == {<<>>, <<"{", "0", "}", "?">>}
QTexts == {NullPtr, CStr(<<"a", QUOTE>>), CStr(<<"{", "1", "}">>)}
QValues == {V_string(<<"b", QUOTE>>), V_int(5), V_float(D(5, 64))}
QTuples == {<<>>, <<V_cstr(<<"a">>), V_int(5)>>,
            <<V_blob(<<"x">>), V_double(D(1, 50)), V_string(<<"s">>)>>}
QPairs == {[first |-> <<"n">>, second |-> V_int(7)],
           [first |-> <<"k">>, second |-> V_string(<<"v", BSLASH>>)]}
QFormats == {<< <<"c">> >>, << <<"c">>, <<"d">> >>}

\* The escaping runs: every text over a letter, the quote and the backslash.
EscAlphabet == {"a", QUOTE, BSLASH}
EscTexts == SeqsUpTo(EscAlphabet, MaxTextLen)

\* The column-template runs: every text made of up to MaxFmtLen pieces, each
\* a placeholder, a '?' or a single placeholder character, and lists of up
\* to two names, some of them holding placeholders.
FmtTokens == {<<"{", "0", "}">>, <<"{", "1", "}">>, <<"?">>, <<"{">>, <<"}">>, <<"0">>, <<"1">>}
RECURSIVE Concat(_)
Concat(ts) == IF ts = <<>> THEN <<>> ELSE Head(ts) \o Concat(Tail(ts))
FmtTexts == {Concat(ts) : ts \in SeqsUpTo(FmtTokens, MaxFmtLen)}
FmtNames == {<<"a">>, <<"b", "0">>, <<"1">>, <<"{", "1", "}">>}
FmtAfter == {<<"{", "0", "}">>}
FmtLists == SeqsUpTo(FmtNames, 2)

\* Rows a backend materialises: at least one field each.
HandleRows == {<<field_int64(1, <<"a">>)>>, <<field_int64(2, <<"a">>)>>,
               <<field_text(<<"x">>, <<"a">>), field_null(<<"b">>)>>}

\* Fields a backend constructs, for the lookup runs.
ColNames == {<<"a">>, <<"b">>}
DriverFields ==
  UNION {{field_null(n), field_int64(1, n), field_double(D(5, 64), n),
          field_text(<<"x">>, n), field_blob(<<"x">>, n)} : n \in ColNames}
LookupNames == {NullPtr, CStr(<<>>), CStr(<<"a">>), CStr(<<"b">>), CStr(<<"c">>)}

\* --------------------------------------------------------- specifications
QIdle == Construct(<<>>)

CInit(rows, pos) ==
  /\ stmt = [rows |-> rows, pos |-> pos, alive |-> TRUE]
  /\ its = [i \in Slots |-> Unused]
  /\ clast = [op |-> "none", slot |-> 1, pulled |-> FALSE, calls |-> <<>>, alive |-> TRUE,
              pre |-> Unused, eq |-> FALSE, rhs |-> Unused]
  /\ trav = TravIdle

CIdle == CInit(<<>>, 0)

RInit(r) ==
  /\ row = r
  /\ look = [kind |-> "none", idx |-> 0, name |-> NullPtr, ref |-> RefInvalid]

RIdle == RInit(<<>>)

TIdle ==
  /\ txs = [i \in TxSlots |-> NoTx]
  /\ tlog = <<>>
  /\ tlast = [op |-> "none", slot |-> 1, ret |-> TRUE, issued |-> <<>>, pre |-> NoTx]
  /\ ntx = 0

XInit(b) ==
  /\ backend = b
  /\ db = EmptyDb
  /\ xlast = [op |-> "none", q |-> Stmt("select", 0, 0), issued |-> <<>>,
              o |-> [begin |-> TRUE, prepare |-> TRUE, bind |-> TRUE, exec |-> TRUE,
                     commit |-> TRUE, rollback |-> TRUE],
              h |-> NoHandle, pre |-> EmptyDb, row |-> 0]
  /\ hd = NoHandle
  /\ nx = 0
  /\ np = 0

XIdle == XInit("sqlite")

WInit ==
  /\ mutex = 0
  /\ th = [t \in Threads |-> Worker0]
  /\ wlast = [op |-> "none", t |-> 1, phase |-> "insert", locked |-> TRUE, busy |-> FALSE]
  /\ faults = 0

\* The builder: construction, then appends of every kind and executes.
InitQuery == (\E str \in QCtorTexts : Construct(str)) /\ CIdle /\ RIdle /\ TIdle /\ XIdle /\ WInit /\ PIdle /\ OIdle /\ KIdle

NextQuery ==
  \/ \E t \in QTexts : nops < MaxOps /\ AppendText(t) /\ UNCHANGED nonq
  \/ \E v \in QValues : nops < MaxOps /\ AppendValue(v) /\ UNCHANGED nonq
  \/ \E t \in QTuples : nops < MaxOps /\ AppendTuple(t) /\ UNCHANGED nonq
  \/ \E p \in QPairs : nops < MaxOps /\ AppendPair(p) /\ UNCHANGED nonq
  \/ \E names \in QFormats : nops < MaxOps /\ FormatCall(names) /\ UNCHANGED nonq
  \/ FormatFor /\ UNCHANGED nonq
  \/ FormatReplace /\ UNCHANGED nonq
  \/ FormatSeek /\ UNCHANGED nonq
  \/ FormatReturn /\ UNCHANGED nonq
  \/ nexec < MaxExecutes /\ Execute /\ UNCHANGED nonq

SpecQuery == InitQuery /\ [][NextQuery]_vars

\* Escaping: a builder constructed from any text, then one raw append.
InitEscape == (\E str \in EscTexts : Construct(str)) /\ CIdle /\ RIdle /\ TIdle /\ XIdle /\ WInit /\ PIdle /\ OIdle /\ KIdle

NextEscape ==
  \/ \E s \in EscTexts : nops < 1 /\ AppendText(CStr(s)) /\ UNCHANGED nonq
  \/ nops < 1 /\ AppendText(NullPtr) /\ UNCHANGED nonq

SpecEscape == InitEscape /\ [][NextEscape]_vars

\* Column templates: a builder constructed from any text, then one format append.
InitFormat == (\E str \in FmtTexts : Construct(str)) /\ CIdle /\ RIdle /\ TIdle /\ XIdle /\ WInit /\ PIdle /\ OIdle /\ KIdle

NextFormat ==
  \/ \E names \in FmtLists : nops < 1 /\ FormatCall(names) /\ UNCHANGED nonq
  \/ FormatFor /\ UNCHANGED nonq
  \/ FormatReplace /\ UNCHANGED nonq
  \/ FormatSeek /\ UNCHANGED nonq
  \/ FormatReturn /\ UNCHANGED nonq
  \/ \E t \in FmtAfter :
       last.op.op = "format" /\ nops < 2 /\ AppendText(CStr(t)) /\ UNCHANGED nonq

SpecFormat == InitFormat /\ [][NextFormat]_vars

\* The body of operator<<(format) runs on once entered: the caller's thread
\* is not suspended for ever.
FormatBody ==
  (FormatFor \/ FormatReplace \/ FormatSeek \/ FormatReturn) /\ UNCHANGED nonq

SpecFormatFair == SpecFormat /\ WF_vars(FormatBody)

\* A cursor and the iterators a caller keeps, in any order of use.
InitCursor ==
  /\ \E rows \in SeqsUpTo(HandleRows, MaxRows) : \E pos \in 0..Len(rows) : CInit(rows, pos)
  /\ QIdle /\ RIdle /\ TIdle /\ XIdle /\ WInit /\ PIdle /\ OIdle /\ KIdle

NextCursor ==
  \/ \E i \in Slots : CursorBegin(i) /\ UNCHANGED <<trav, nonc>>
  \/ \E i \in Slots : CursorEnd(i) /\ UNCHANGED <<trav, nonc>>
  \/ \E i \in Slots : Advance(i) /\ UNCHANGED <<trav, nonc>>
  \/ DestroyCursor /\ UNCHANGED <<trav, nonc>>

SpecCursor == InitCursor /\ [][NextCursor]_vars

\* Every operation of a cursor and of its iterators, with the calls each
\* makes on the handle.
NextCalls ==
  \/ \E i \in Slots : CursorBegin(i) /\ UNCHANGED <<trav, nonc>>
  \/ \E i \in Slots : CursorEnd(i) /\ UNCHANGED <<trav, nonc>>
  \/ \E i \in Slots : Advance(i) /\ UNCHANGED <<trav, nonc>>
  \/ \E i \in Slots, j \in Slots : PostAdvance(i, j) /\ UNCHANGED <<trav, nonc>>
  \/ \E i \in Slots, j \in Slots : Copy(i, j) /\ UNCHANGED <<trav, nonc>>
  \/ \E i \in Slots : Star(i) /\ UNCHANGED <<trav, nonc>>
  \/ \E i \in Slots, j \in Slots : Equals(i, j) /\ UNCHANGED <<trav, nonc>>
  \/ DestroyCursor /\ UNCHANGED <<trav, nonc>>

\* A handle of few rows, read from its start: its rows are all different,
\* in one order, or all the same.
CallRows == <<<<field_int64(1, <<"a">>)>>, <<field_int64(2, <<"a">>)>>,
              <<field_text(<<"x">>, <<"a">>), field_null(<<"b">>)>>>>
CallHandles ==
  {rows \in SeqsUpTo(HandleRows, MaxCallRows) :
     \/ Len(rows) <= Len(CallRows) /\ rows = SubSeq(CallRows, 1, Len(rows))
     \/ \A i \in 1..Len(rows) : rows[i] = rows[1]}

InitCalls ==
  /\ \E rows \in CallHandles : CInit(rows, 0)
  /\ QIdle /\ RIdle /\ TIdle /\ XIdle /\ WInit /\ PIdle /\ OIdle /\ KIdle

SpecCalls == InitCalls /\ [][NextCalls]_vars

\* One caller looping over a cursor with a single iterator.
NextTraverse ==
  \/ TravBegin /\ UNCHANGED nonc
  \/ TravVisit /\ UNCHANGED nonc
  \/ TravExit /\ UNCHANGED nonc
  \/ TravAgain /\ UNCHANGED nonc

SpecTraverse == InitCursor /\ [][NextTraverse]_vars

\* Lookups on a row.
InitRow == (\E r \in SeqsUpTo(DriverFields, MaxCols) : RInit(r)) /\ QIdle /\ CIdle /\ TIdle /\ XIdle /\ WInit /\ PIdle /\ OIdle /\ KIdle

NextRow ==
  \/ \E idx \in 0..(MaxCols + 1) : LookupIndex(idx) /\ UNCHANGED nonr
  \/ \E n \in LookupNames : LookupName(n) /\ UNCHANGED nonr

SpecRow == InitRow /\ [][NextRow]_vars

\* Scoped transaction objects: constructed, moved, committed, rolled back
\* and destroyed in any order, every native command free to fail.
InitTx == TIdle /\ QIdle /\ CIdle /\ RIdle /\ XIdle /\ WInit /\ PIdle /\ OIdle /\ KIdle

NextTx ==
  \/ \E i \in TxSlots, ok \in BOOLEAN : TxCtor(i, ok) /\ UNCHANGED nont
  \/ \E i, j \in TxSlots : TxMove(i, j) /\ UNCHANGED nont
  \/ \E i \in TxSlots, ok \in BOOLEAN : ntx < MaxTxCalls /\ TxCommit(i, ok) /\ UNCHANGED nont
  \/ \E i \in TxSlots, ok \in BOOLEAN : ntx < MaxTxCalls /\ TxRollback(i, ok) /\ UNCHANGED nont
  \/ \E i \in TxSlots, ok \in BOOLEAN : TxDtor(i, ok) /\ UNCHANGED nont

SpecTx == InitTx /\ [][NextTx]_vars

\* One caller executing statements on a connection of any backend, every
\* native call free to fail.
XStmts(n) == {Stmt("insert", n, 0), Stmt("insert", n, 1), Stmt("ddl", 0, 0), Stmt("select", 0, 0),
              Stmt("select", 0, 1)}

InitExec == (\E b \in Backends : XInit(b)) /\ QIdle /\ CIdle /\ RIdle /\ TIdle /\ WInit /\ PIdle /\ OIdle /\ KIdle

NextExec ==
  \/ \E q \in XStmts(nx + 1), o \in Outcomes :
       nx < MaxExecs /\ BackendExecute(q, o) /\ UNCHANGED nonx
  \/ np < MaxPulls /\ BackendFirst /\ UNCHANGED nonx
  \/ \E ok \in BOOLEAN : np < MaxPulls /\ BackendNext(ok) /\ UNCHANGED nonx

SpecExec == InitExec /\ [][NextExec]_vars

\* Executes whose BEGIN, COMMIT and ROLLBACK succeed: what the handle reports
\* then depends on the statement's own native calls only.
StmtOutcomes == {o \in Outcomes : o.begin /\ o.commit /\ o.rollback}

NextCounts ==
  \E q \in XStmts(nx + 1), o \in StmtOutcomes :
    nx < MaxExecs /\ BackendExecute(q, o) /\ UNCHANGED nonx

SpecCounts == InitExec /\ [][NextCounts]_vars

\* Worker threads on one shared connection of any backend, each running an
\* insert, a select, a std::find_if and a std::for_each over the select's
\* cursor, and the destruction of both cursors (main's workers).
InitWorkers == (\E b \in Backends : XInit(b)) /\ WInit /\ PIdle /\ OIdle /\ KIdle /\ QIdle /\ CIdle /\ RIdle /\ TIdle

NextWorkers ==
  \/ \E t \in Threads : Acquire(t) /\ UNCHANGED nonw
  \/ \E t \in Threads : Release(t) /\ UNCHANGED nonw
  \/ \E t \in Threads, o \in Outcomes : CallExecute(t, o) /\ UNCHANGED nonw
  \/ \E t \in Threads : CallNext(t) /\ UNCHANGED nonw
  \/ \E t \in Threads : CallOther(t) /\ UNCHANGED nonw

SpecWorkers == InitWorkers /\ [][NextWorkers]_vars

\* The scheduler lets every thread that can take a step take one.
SpecWorkersFair ==
  SpecWorkers /\ \A t \in Threads : WF_vars(WorkerStep(t) /\ UNCHANGED nonw)

\* Threads that insert through one shared connection.
InitIds ==
  /\ \E b \in Backends : XInit(b)
  /\ mutex = 0 /\ th = [t \in Threads |-> IdWorker0] /\ faults = 0
  /\ wlast = [op |-> "none", t |-> 1, phase |-> "insert", locked |-> TRUE, busy |-> FALSE]
  /\ PIdle /\ OIdle /\ KIdle /\ QIdle /\ CIdle /\ RIdle /\ TIdle

NonIds == <<wlast, faults, nonw>>

NextIds ==
  \/ \E t \in Threads : IdAcquire(t) /\ UNCHANGED NonIds
  \/ \E t \in Threads : IdExecute(t) /\ UNCHANGED NonIds
  \/ \E t \in Threads : IdRelease(t) /\ UNCHANGED NonIds
  \/ \E t \in Threads : IdRead(t) /\ UNCHANGED NonIds
  \/ \E t \in Threads : IdRepeat(t) /\ UNCHANGED NonIds
  \/ \E t \in Threads : IdFinish(t) /\ UNCHANGED NonIds

SpecIds == InitIds /\ [][NextIds]_vars

\* The query texts classified: pieces of SQL, the keywords among them.
Pieces == {"SELECT", "select", "DESC", "x", " ", "(", ")"}

InitClassify ==
  /\ arg \in SeqsUpTo(Pieces, MaxPieces) /\ ret = <<>>
  /\ QIdle /\ CIdle /\ RIdle /\ TIdle /\ XIdle /\ WInit /\ OIdle /\ KIdle

NextClassify == Classify /\ UNCHANGED <<qvars, cvars, rvars, tvars, xvars, wvars, ovars, kvars>>

SpecClassify == InitClassify /\ [][NextClassify]_vars

\* The integers bound: those within Near of a boundary of a signed tier or
\* of the unsigned 8-bit range, on a build of either char signedness.
TierEdges == {I64(-(2^15), 0), I64(-1, 2^15), I64(-1, 2^16 - 2^7), I64(0, 0),
              I64(0, 2^7), I64(0, 2^8), I64(0, 2^15), I64(2^15, 0)}

BoundIntegers == {I64Plus(e, k) : e \in TierEdges, k \in (-Near)..Near}

InitTier ==
  /\ arg \in [i64 : BoundIntegers, char_signed : BOOLEAN] /\ ret = <<>>
  /\ QIdle /\ CIdle /\ RIdle /\ TIdle /\ XIdle /\ WInit /\ OIdle /\ KIdle

NextTier == BindInteger /\ UNCHANGED <<qvars, cvars, rvars, tvars, xvars, wvars, ovars, kvars>>

SpecTier == InitTier /\ [][NextTier]_vars

\* A db of any backend: created through connection::create, then opened
\* and closed any number of times, then destroyed.
InitOpen ==
  /\ (\E b \in Backends : XInit(b)) /\ OIdle /\ KIdle
  /\ QIdle /\ CIdle /\ RIdle /\ TIdle /\ WInit /\ PIdle

NonOpen == <<qvars, cvars, rvars, tvars, db, hd, xlast, nx, np, wvars, pvars, kvars>>

NextOpen ==
  \/ \E o \in Connects : Create(o) /\ UNCHANGED NonOpen
  \/ \E o \in Connects : olast.n < MaxOpens /\ Open(o) /\ UNCHANGED NonOpen
  \/ olast.n < MaxOpens /\ Close /\ UNCHANGED NonOpen
  \/ Destroy /\ UNCHANGED NonOpen

\* Values of tag Integer or Float whose integer view lies in or beyond the
\* native ranges, compared with native integers of each width.
StoredIntegers == {I64(0, 0), I64(0, 5), I64(-1, 2^16 - 1), I64(0, 2^8 + 5), I64(0, 2^16 - 1),
                   I64(1, 5), I64(2^15, 0), I64(2^16, 5), I64(-(2^16) - 1, 2^16 - 1)}
NativeIntegers == {I64(0, 0), I64(0, 5), I64(-1, 2^16 - 1), I64(0, 2^8 - 1), I64(1, 5)}

InNative(n, ctype, char_signed) ==
  CASE ctype = "char" -> ~I64Less(char_max(char_signed), n) /\ ~I64Less(n, char_min(char_signed))
    [] ctype = "short" -> ~I64Less(short_max, n) /\ ~I64Less(n, short_min)
    [] OTHER -> ~I64Less(int_max, n) /\ ~I64Less(n, int_min)

InitCompare ==
  /\ arg \in {a \in [f : [type_ : {SQL_INTEGER, SQL_FLOAT}, int_ : StoredIntegers],
                      ctype : {"char", "short", "int"}, n : NativeIntegers,
                      char_signed : BOOLEAN] : InNative(a.n, a.ctype, a.char_signed)}
  /\ ret = <<>>
  /\ QIdle /\ CIdle /\ RIdle /\ TIdle /\ XIdle /\ WInit /\ OIdle /\ KIdle

NextCompare == CompareNative /\ UNCHANGED <<qvars, cvars, rvars, tvars, xvars, wvars, ovars, kvars>>

SpecCompare == InitCompare /\ [][NextCompare]_vars

\* A Blob of any bytes, bound and read back.
BlobBytes == {0, 5, 16, 18, 35, 171}

InitBlob ==
  /\ arg \in [blob : SeqsUpTo(BlobBytes, MaxBlobLen), sent : {<<>>}] /\ ret = <<>>
  /\ QIdle /\ CIdle /\ RIdle /\ TIdle /\ XIdle /\ WInit /\ OIdle /\ KIdle

NonP == <<qvars, cvars, rvars, tvars, xvars, wvars, ovars, kvars>>

NextBlob ==
  \/ SendBlob /\ UNCHANGED NonP
  \/ ReadBlob /\ UNCHANGED NonP

SpecBlob == InitBlob /\ [][NextBlob]_vars

\* Statements executed on one PostgreSQL connection and their handles
\* destroyed, in any order, in either build.
InitNames ==
  /\ \E sh \in BOOLEAN : KInit(sh)
  /\ QIdle /\ CIdle /\ RIdle /\ TIdle /\ XIdle /\ WInit /\ PIdle /\ OIdle

NonNames == <<qvars, cvars, rvars, tvars, xvars, wvars, pvars, ovars>>

NextNames ==
  \/ \E r \in BOOLEAN :
       pqi < MaxDeclares /\ Len(held) < MaxHeld /\ PqExecute(r) /\ UNCHANGED NonNames
  \/ \E k \in 1..MaxHeld : PqDestroy(k) /\ UNCHANGED NonNames

SpecNames == InitNames /\ [][NextNames]_vars

SpecOpen == InitOpen /\ [][NextOpen]_vars

\* ------------------------------------------------- what the claims state
\* A text with every quote and every backslash doubled.
RECURSIVE Doubled(_)
Doubled(t) ==
  IF t = <<>> THEN <<>>
  ELSE (IF Head(t) \in {QUOTE, BSLASH} THEN <<Head(t), Head(t)>> ELSE <<Head(t)>>)
       \o Doubled(Tail(t))

\* The inverse reading: a doubled quote or backslash stands for one.
RECURSIVE Undouble(_)
Undouble(t) ==
  IF t = <<>> THEN <<>>
  ELSE IF Head(t) \in {QUOTE, BSLASH} /\ Len(t) >= 2 /\ t[2] = Head(t)
       THEN <<Head(t)>> \o Undouble(SubSeq(t, 3, Len(t)))
       ELSE <<Head(t)>> \o Undouble(Tail(t))

\* One pass over the text, left to right: each {i} with i < N gives way to
\* the i-th name, every other character stays.
PlaceholderAt(t, p, i) ==
  LET w == <<"{">> \o Decimal(i) \o <<"}">>
  IN  p + Len(w) - 1 <= Len(t) /\ SubSeq(t, p, p + Len(w) - 1) = w

RECURSIVE SubstFrom(_, _, _)
SubstFrom(t, names, p) ==
  IF p > Len(t) THEN <<>>
  ELSE LET is == {i \in 0..(Len(names) - 1) : PlaceholderAt(t, p, i)}
       IN  IF is = {} THEN <<t[p]>> \o SubstFrom(t, names, p + 1)
           ELSE LET i == CHOOSE i \in is : TRUE
                IN  names[i + 1] \o SubstFrom(t, names, p + 2 + Len(Decimal(i)))

Subst(t, names) == SubstFrom(t, names, 1)

\* The (name, value) pairs an append asks to bind, in the caller's order.
Entries(op) ==
  CASE op.op = "value" -> << [name |-> <<>>, v |-> op.val] >>
    [] op.op = "tuple" -> [j \in 1..Len(op.tup) |-> [name |-> <<>>, v |-> op.tup[j]]]
    [] op.op = "pair"  -> << [name |-> op.pname, v |-> op.val] >>
    [] OTHER -> <<>>

RECURSIVE Flatten(_)
Flatten(ops) == IF ops = <<>> THEN <<>> ELSE Entries(Head(ops)) \o Flatten(Tail(ops))

\* Binding entry f carries value v: its tag and its payload.
Carries(f, v) ==
  CASE v.ctype \in {"char", "short", "int", "size_t", "int64"} ->
         f.type_ = SQL_INTEGER /\ f.int_ = v.i
    [] v.ctype \in {"float", "double"} -> f.type_ = SQL_FLOAT /\ f.float_ = v.d
    [] v.ctype \in {"string", "cstr"} -> f.type_ = SQL_TEXT /\ f.str_ = v.s
    [] v.ctype = "blob" -> f.type_ = SQL_BLOB /\ f.str_ = v.s

\* The text a fresh builder holds after the appends ops.
RECURSIVE TextOf(_)
TextOf(ops) ==
  IF ops = <<>> THEN <<>>
  ELSE LET op == ops[Len(ops)]
           before == TextOf(SubSeq(ops, 1, Len(ops) - 1))
       IN  CASE op.op \in {"ctor", "text"} ->
                  before \o (IF op.text.isnull THEN <<>> ELSE Doubled(op.text.chars))
             [] op.op = "format" -> Subst(before, op.names)
             [] OTHER -> before

\* The builder is between two calls and the last call to return was a kind.
Returned(kinds) == fmt.pc = "idle" /\ last.op.op \in kinds

\* C1: after execute() the text and the binding list are empty, and every
\* execute() hands the driver exactly the text and as many bindings as were
\* appended since the execute() before it, nothing from earlier.
C1_ExecuteHandsOverAndClears ==
  /\ Returned({"execute"}) => query_ = <<>> /\ bind_ = <<>>
  /\ driver.n > 0 =>
       /\ driver.query = TextOf(expect)
       /\ Len(driver.bind) = Len(Flatten(expect))

C1_Witness ==
  /\ driver.n = 2
  /\ Returned({"execute"})
  /\ driver.query # <<>>
  /\ driver.bind # <<>>

\* C2: a raw C-string append (and the constructor) appends the text with
\* every quote and backslash doubled and everything else as it is; a null
\* or empty text changes nothing; un-doubling the appended part gives the
\* text back.
C2_RawTextIsDoubled ==
  Returned({"ctor", "text"}) =>
    LET t == IF last.op.text.isnull THEN <<>> ELSE last.op.text.chars
        added == SubSeq(query_, Len(last.pre_query) + 1, Len(query_))
    IN  /\ query_ = last.pre_query \o Doubled(t)
        /\ Undouble(added) = t
        /\ bind_ = last.pre_bind
        /\ (~strpbrk_quote_bslash(t) => added = t)

C2_Witness ==
  /\ Returned({"text"})
  /\ last.pre_query # <<>>
  /\ \E i \in 1..Len(last.op.text.chars) : last.op.text.chars[i] = QUOTE
  /\ \E i \in 1..Len(last.op.text.chars) : last.op.text.chars[i] = BSLASH
  /\ \E i \in 1..Len(last.op.text.chars) : last.op.text.chars[i] = "a"

\* C3: appending a std::string adds one unnamed Text entry at the end of the
\* binding list, with the string's bytes as they are, and leaves the query
\* text alone.
C3_StringIsBound ==
  Returned({"value"}) /\ last.op.val.ctype = "string" =>
    /\ bind_ = Append(last.pre_bind,
                      [int_ |-> 0, float_ |-> D(0, 0), str_ |-> last.op.val.s,
                       name_ |-> <<>>, type_ |-> SQL_TEXT])
    /\ query_ = last.pre_query

C3_Witness ==
  /\ Returned({"value"}) /\ last.op.val.ctype = "string"
  /\ \E i \in 1..Len(last.op.val.s) : last.op.val.s[i] = QUOTE
  /\ last.pre_bind # <<>>
  /\ last.pre_query # <<>>

\* C4: the binding list execute() hands over holds the bound values in the
\* order the appends issued them; a values(...) tuple of k elements adds k
\* consecutive entries, left to right, and changes nothing else.
C4_BindingsInOrder ==
  /\ driver.n > 0 =>
       /\ Len(driver.bind) = Len(Flatten(expect))
       /\ \A j \in 1..Len(driver.bind) :
            /\ Carries(driver.bind[j], Flatten(expect)[j].v)
            /\ driver.bind[j].name_ = Flatten(expect)[j].name
  /\ Returned({"tuple"}) =>
       /\ Len(bind_) = Len(last.pre_bind) + Len(last.op.tup)
       /\ SubSeq(bind_, 1, Len(last.pre_bind)) = last.pre_bind
       /\ \A j \in 1..Len(last.op.tup) :
            /\ Carries(bind_[Len(last.pre_bind) + j], last.op.tup[j])
            /\ bind_[Len(last.pre_bind) + j].name_ = <<>>
       /\ query_ = last.pre_query

C4_Witness ==
  /\ Returned({"execute"})
  /\ Len(expect) = 2
  /\ expect[1].op = "value"
  /\ expect[2].op = "tuple" /\ Len(expect[2].tup) = 3
  /\ Len(driver.bind) = 4

\* A name as a column or table identifier has it: no brace, and some
\* character that is not a digit.
Digits == {"0", "1", "2", "3", "4", "5", "6", "7", "8", "9"}
IdentifierLike(n) ==
  /\ \A i \in 1..Len(n) : n[i] \notin {"{", "}"}
  /\ \E i \in 1..Len(n) : n[i] \notin Digits

FormatDone == Returned({"format"})
TextAfterFormat == Returned({"text"}) /\ Len(log) >= 2 /\ log[Len(log) - 1].op = "format"

\* C5 as stated, for any list of names: the format append puts the i-th name
\* in the place of every {i} of the text accumulated before the call, keeps
\* every '?', all other text and the binding list, and does not touch text
\* appended afterwards.
C5_AsStated ==
  /\ FormatDone =>
       /\ query_ = Subst(last.pre_query, last.op.names)
       /\ bind_ = last.pre_bind
  /\ TextAfterFormat => query_ = last.pre_query \o Doubled(last.op.text.chars)

\* C5, amended: the same, for names that hold no brace and at least one
\* character that is not a digit.
C5_FormatSubstitutes ==
  /\ (FormatDone /\ \A k \in 1..Len(last.op.names) : IdentifierLike(last.op.names[k])) =>
       /\ query_ = Subst(last.pre_query, last.op.names)
       /\ bind_ = last.pre_bind
  /\ TextAfterFormat => query_ = last.pre_query \o Doubled(last.op.text.chars)

C5_Witness ==
  /\ FormatDone
  /\ Len(last.op.names) = 2
  /\ \A k \in 1..2 : IdentifierLike(last.op.names[k])
  /\ find(last.pre_query, <<"{", "0", "}">>) # 0
  /\ find(last.pre_query, <<"{", "1", "}">>) # 0
  /\ find(last.pre_query, <<"?">>) # 0
  /\ query_ # last.pre_query

\* C6: appending value(name, v) adds one entry at the end of the binding
\* list, named by the pair's first element and carrying its second, and
\* leaves the query text alone.
C6_PairIsNamedBinding ==
  Returned({"pair"}) =>
    /\ Len(bind_) = Len(last.pre_bind) + 1
    /\ SubSeq(bind_, 1, Len(last.pre_bind)) = last.pre_bind
    /\ bind_[Len(bind_)].name_ = last.op.pname
    /\ Carries(bind_[Len(bind_)], last.op.val)
    /\ query_ = last.pre_query

C6_Witness ==
  /\ Returned({"pair"})
  /\ last.op.pname # <<>>
  /\ last.pre_bind # <<>>
  /\ last.pre_query # <<>>

\* C7: on a handle without rows, begin() == end() at once.
C7_EmptyBeginIsEnd ==
  clast.op = "begin" /\ stmt.rows = <<>> =>
    iterator_eq(its[clast.slot], cursor_end(stmt).it)

C7_Witness == clast.op = "begin" /\ stmt.rows = <<>> /\ its[clast.slot].used

\* C8: a loop that advances one iterator from begin() until it equals end()
\* visits exactly the handle's rows, in the handle's order, and stops; a
\* later loop from a fresh begin() on the same cursor visits the same rows
\* in the same order.
C8_LoopVisitsEveryRowOnce ==
  /\ trav.pc = "done" => trav.seen = stmt.rows
  /\ trav.pc = "done" /\ trav.pass > 1 => trav.seen = trav.first
  /\ trav.pc = "loop" =>
       /\ Len(trav.seen) <= Len(stmt.rows)
       /\ trav.seen = SubSeq(stmt.rows, 1, Len(trav.seen))
       /\ (Len(trav.seen) = Len(stmt.rows) => iterator_eq(its[1], cursor_end(stmt).it))

C8_Witness ==
  /\ trav.pc = "done" /\ trav.pass = 2
  /\ Len(stmt.rows) = 3
  /\ trav.seen = stmt.rows
  /\ stmt.rows[1] # stmt.rows[2]

\* C9 as stated: an advance made after the cursor that owned the handle is
\* gone pulls nothing from the handle and leaves the iterator equal to end().
C9_AsStated ==
  clast.op = "advance" /\ ~clast.alive =>
    /\ ~clast.pulled
    /\ iterator_eq(its[clast.slot], cursor_end(stmt).it)

\* C10: a lookup by an index past the end, by a name no field has, or by a
\* null name returns the one sentinel, whose tag is INVALID and is the tag
\* of no value a backend constructs.
LookupMisses ==
  \/ look.kind = "index" /\ look.idx >= Len(row)
  \/ look.kind = "name" /\ look.name.isnull
  \/ look.kind = "name" /\ ~look.name.isnull
       /\ \A i \in 1..Len(row) : row[i].name_ # look.name.chars

C10_MissReturnsInvalid ==
  LookupMisses =>
    /\ look.ref = RefInvalid
    /\ Deref(row, look.ref).type_ = SQL_INVALID
    /\ \A f \in DriverFields : f.type_ # Deref(row, look.ref).type_

C10_Witness ==
  /\ LookupMisses
  /\ look.kind = "name" /\ ~look.name.isnull
  /\ Len(row) = 2

\* C11: a lookup by a name that at least one field carries returns the field
\* at the smallest index carrying it, the field row[i] returns for that
\* index, also when several fields share the name.
Carriers == IF look.kind = "name" /\ ~look.name.isnull
            THEN {i \in 1..Len(row) : row[i].name_ = look.name.chars} ELSE {}

C11_NameIsFirstMatch ==
  Carriers # {} =>
    \E i \in Carriers :
      /\ \A j \in Carriers : i <= j
      /\ look.ref = row_at_index(row, i - 1)
      /\ Deref(row, look.ref) = row[i]

C11_Witness ==
  /\ Cardinality(Carriers) = 2
  /\ row[1] # row[2]
  /\ look.ref = RefField(1)

\* The transaction an object carries is still open: its BEGIN succeeded, no
\* COMMIT or ROLLBACK has succeeded for it, and it was not moved away.
TxOpen(t) == t.began /\ t.settled = "none" /\ ~t.moved

TxEnders == {"COMMIT", "ROLLBACK"}

\* C17: destruction issues a native ROLLBACK exactly when the BEGIN of the
\* transaction succeeded, no COMMIT or ROLLBACK has succeeded for it and it
\* was not moved from, and no native command otherwise; so once an object
\* whose BEGIN succeeded is gone, a COMMIT or ROLLBACK was attempted for it.
C17_DtorRollsBackOpenOnly ==
  /\ tlast.op = "dtor" =>
       IF TxOpen(tlast.pre)
       THEN Len(tlast.issued) = 1 /\ tlast.issued[1].cmd = "ROLLBACK"
       ELSE tlast.issued = <<>>
  /\ \A i \in TxSlots :
       txs[i].state = "dead" /\ txs[i].began /\ ~txs[i].moved =>
         \E k \in 1..Len(tlog) : tlog[k].id = txs[i].id /\ tlog[k].cmd \in TxEnders

C17_Witness ==
  /\ tlast.op = "dtor" /\ TxOpen(tlast.pre) /\ tlast.issued # <<>>
  /\ \E i \in TxSlots : txs[i].state = "dead" /\ txs[i].moved /\ txs[i].began

\* C18 as stated: commit() and rollback() mark the transaction finished, and
\* once either has returned, whatever the native command reported, a later
\* commit(), rollback() or destruction issues no native command.
C18_AsStated ==
  /\ tlast.op \in {"commit", "rollback"} => txs[tlast.slot].finished_
  /\ tlast.op \in {"commit", "rollback", "dtor"} /\ tlast.pre.called # "no" =>
       tlast.issued = <<>>

\* C18, amended: on an unfinished transaction commit() issues COMMIT and
\* rollback() issues ROLLBACK, and the transaction is marked finished, and
\* true returned, only if the command succeeded.  After a call that returned
\* true a later commit(), rollback() or destruction issues nothing; after a
\* call that returned false the next one issues its command again.
C18_FinishedOnlyOnSuccess ==
  /\ tlast.op \in {"commit", "rollback"} /\ ~tlast.pre.finished_ =>
       /\ Len(tlast.issued) = 1
       /\ tlast.issued[1].cmd = (IF tlast.op = "commit" THEN "COMMIT" ELSE "ROLLBACK")
       /\ txs[tlast.slot].finished_ = tlast.issued[1].ok
       /\ tlast.ret = tlast.issued[1].ok
  /\ tlast.op \in {"commit", "rollback", "dtor"} /\ tlast.pre.called = "true" =>
       tlast.issued = <<>>
  /\ tlast.op \in {"commit", "rollback", "dtor"} /\ tlast.pre.called = "false"
       /\ ~tlast.pre.moved =>
       Len(tlast.issued) = 1

C18_Witness ==
  /\ tlast.op = "dtor" /\ tlast.pre.called = "false" /\ ~tlast.pre.moved
  /\ Len(tlog) = 3
  /\ tlog[2].cmd = "COMMIT" /\ ~tlog[2].ok
  /\ tlog[3].cmd = "ROLLBACK"

\* C19: a transaction is finished exactly when its BEGIN failed, a COMMIT or
\* a ROLLBACK succeeded for it, or it was moved from; from then on commit()
\* and rollback() return true and issue nothing, destruction issues nothing,
\* and no command follows a successful COMMIT or ROLLBACK of a transaction.
C19_FinishedIsFinal ==
  /\ \A i \in TxSlots : txs[i].state = "live" => (txs[i].finished_ <=> ~TxOpen(txs[i]))
  /\ tlast.op \in {"commit", "rollback", "dtor"} /\ ~TxOpen(tlast.pre) =>
       /\ tlast.issued = <<>>
       /\ tlast.op # "dtor" => tlast.ret
  /\ \A a, b \in 1..Len(tlog) :
       a < b /\ tlog[a].id = tlog[b].id => ~(tlog[a].ok /\ tlog[a].cmd \in TxEnders)

C19_Witness ==
  /\ tlast.op = "rollback" /\ tlast.pre.settled = "commit" /\ tlast.ret
  /\ \E i \in TxSlots : txs[i].state = "dead" /\ txs[i].moved /\ txs[i].began

\* What the last execute issued.
TxCmds == {"BEGIN", "COMMIT", "ROLLBACK"}
Issued(c) == \E k \in 1..Len(xlast.issued) : xlast.issued[k].cmd = c
IssuedOk(c) == \E k \in 1..Len(xlast.issued) : xlast.issued[k].cmd = c /\ xlast.issued[k].ok
TxCmdsOk == \A k \in 1..Len(xlast.issued) : xlast.issued[k].cmd \in TxCmds => xlast.issued[k].ok
\* The statement was prepared, bound and executed without native error.
Succeeded == \A k \in 1..Len(xlast.issued) : xlast.issued[k].cmd \notin TxCmds => xlast.issued[k].ok
PrepareOrBindFailed == ~xlast.o.prepare \/ (xlast.q.nbind > 0 /\ ~xlast.o.bind)

\* C15 as stated, read with BEGIN, COMMIT and ROLLBACK themselves succeeding:
\* the transaction of an execute is committed exactly when the statement's
\* native execution succeeded; otherwise no COMMIT is issued and a ROLLBACK is.
C15_AsStated ==
  xlast.op = "execute" /\ TxCmdsOk =>
    /\ Succeeded <=> IssuedOk("COMMIT")
    /\ ~Succeeded => ~Issued("COMMIT") /\ Issued("ROLLBACK")

\* C16 as stated: when the prepare step or the bind step fails, no COMMIT is
\* issued and the connection's table holds no row of that statement.
C16_AsStated ==
  xlast.op = "execute" /\ PrepareOrBindFailed =>
    /\ ~Issued("COMMIT")
    /\ \A k \in 1..Len(db.table) : db.table[k].id # xlast.q.id

\* C20 as stated: the handle reports SQL_OK exactly when the statement was
\* prepared, bound and executed without native error.
C20_AsStated ==
  xlast.op = "execute" => (xlast.h.result = SQL_OK <=> Succeeded)


\* ---- workers
AllDone == \A t \in Threads : Phases[th[t].phase] = "done"

HasRow(seq, id) == \E k \in 1..Len(seq) : seq[k] = id

\* A thread that is about to construct a connection_lock does not hold the
\* mutex, a thread that holds it has the matching destruction ahead of it in
\* the operation it is in, and a thread that is done holds nothing.
LockDiscipline ==
  \A t \in Threads :
    /\ StepOf(backend, th[t]) = "acq" => mutex # t
    /\ mutex = t => \E k \in th[t].ip..Len(ScriptOf(backend, th[t])) :
                      ScriptOf(backend, th[t])[k] = "rel"
    /\ Phases[th[t].phase] = "done" => mutex # t

\* C12: every native call on the connection's handle is made by a thread
\* that holds the connection's lock, whatever the backend.
C12_AsStated == wlast.op = "call" => wlast.locked

\* C13: the workers all run to completion with the lock free at the end;
\* on the way no thread constructs a connection_lock while it holds the
\* mutex, and every lock a thread took is released within the operation
\* that took it.
C13_WorkersComplete == [](LockDiscipline) /\ <>[](AllDone /\ mutex = 0)

C13_Witness ==
  /\ AllDone /\ mutex = 0
  /\ \A t \in Threads : \A u \in Threads : HasRow(th[t].got, u)

\* C14: once a thread's insert reported SQL_OK its row is committed, and
\* the loop over that thread's later select visits it.
C14_AsStated ==
  \A t \in Threads :
    th[t].ins # NoHandle /\ th[t].ins.result = SQL_OK /\ th[t].insTxOk =>
      /\ HasRow(db_select(db), t)
      /\ Phases[th[t].phase] = "done" /\ th[t].sel.open => HasRow(th[t].got, t)


\* ---- what a handle reports
\* C21: a handle whose result() is not SQL_OK reports 0 for last_id() and
\* for affected_rows(), on every backend.
C21_ErrorLeavesCountsZero ==
  hd # NoHandle /\ hd.result # SQL_OK => hd.last_id_ = 0 /\ hd.affected_rows_ = 0

\* A failed execute on a connection whose own counters are not zero.
C21_Witness ==
  /\ xlast.op = "execute" /\ hd.result # SQL_OK
  /\ db.rowid # 0 /\ db.changes # 0
  /\ hd.last_id_ = 0 /\ hd.affected_rows_ = 0

\* C22: on a handle whose result() is not SQL_OK every next() returns the
\* empty Row.
C22_AsStated ==
  xlast.op = "next" /\ xlast.h.result # SQL_OK => xlast.row = 0

\* C23: the handle of a statement that inserts nothing reports 0 for
\* last_id() and for affected_rows(), whatever was executed before it on the
\* connection.
C23_AsStated ==
  xlast.op = "execute" /\ xlast.q.kind # "insert" =>
    hd.last_id_ = 0 /\ hd.affected_rows_ = 0

\* C24: on the handle of a statement without a result set first() and
\* next() leave the database as it was, and next() returns the empty Row.
C24_AsStated ==
  xlast.op \in {"first", "next"} /\ xlast.h.kind # "select" =>
    db = xlast.pre /\ xlast.row = 0


\* ---- query_has_results
Keywords == {"SELECT", "DESC", "SHOW", "EXPLAIN", "DESCRIBE"}

KeywordAt(text, i, K) == WholeWord(text, i) /\ Upper(text[i]) \in K

\* The number of parenthesised groups open in front of piece i.
RECURSIVE Depth(_, _)
Depth(text, i) ==
  IF i <= 1 THEN 0
  ELSE LET before == Depth(text, i - 1)
       IN  CASE text[i - 1] = "(" -> before + 1
             [] text[i - 1] = ")" /\ before > 0 -> before - 1
             [] OTHER -> before

\* Every ")" closes a group and every group is closed.
Balanced(text) ==
  /\ \A i \in 1..Len(text) : text[i] = ")" => Depth(text, i) > 0
  /\ Depth(text, Len(text) + 1) = 0

\* C25 as stated: a whole-word SELECT outside parentheses makes the text
\* result-producing, and a text with none of the five keywords as a whole
\* word is not result-producing.
C25_AsStated ==
  ret # <<>> =>
    /\ (\E i \in 1..Len(arg) : KeywordAt(arg, i, {"SELECT"}) /\ Depth(arg, i) = 0) => ret[1]
    /\ (\A i \in 1..Len(arg) : ~KeywordAt(arg, i, Keywords)) => ~ret[1]

\* C25: in a text whose parentheses are balanced a whole-word SELECT, in any
\* letter case, outside every group makes the text result-producing; a text
\* with none of the five keywords as a whole word is not result-producing.
C25_SelectOutsideGroups ==
  ret # <<>> =>
    /\ Balanced(arg)
         /\ (\E i \in 1..Len(arg) : KeywordAt(arg, i, {"SELECT"}) /\ Depth(arg, i) = 0)
       => ret[1]
    /\ (\A i \in 1..Len(arg) : ~KeywordAt(arg, i, Keywords)) => ~ret[1]

\* "INSERT INTO t(x) SELECT 1": a SELECT after a closed group.
C25_Witness ==
  /\ ret = <<TRUE>> /\ Balanced(arg)
  /\ \E i \in 1..Len(arg) :
       /\ KeywordAt(arg, i, {"SELECT"}) /\ Depth(arg, i) = 0
       /\ \E j \in 1..(i - 1) : arg[j] = ")"

\* C26: a text with balanced parentheses is result-producing exactly when
\* one of the five keywords occurs in it outside every parenthesised group.
C26_AsStated ==
  ret # <<>> /\ Balanced(arg) =>
    (ret[1] <=> \E i \in 1..Len(arg) : KeywordAt(arg, i, Keywords) /\ Depth(arg, i) = 0)


\* ---- open, close and connection::create
\* C27: connection::create returns null when the database could not be
\* opened, and a connection only when its db reports is_open().
C27_AsStated ==
  olast.op = "create" =>
    /\ ~olast.ret => con = "null"
    /\ con = "connection" => cn.open_

\* C28: open() on an open db returns true and makes no native call, close()
\* on a closed db makes no native call, and no handle the native library
\* handed out is closed more than once, whatever the sequence of open(),
\* close() and destruction; a native close is only ever called on such a
\* handle.
C28_OpenCloseIdempotent ==
  /\ olast.op = "open" /\ olast.pre.open_ => olast.ret /\ olast.issued = <<>>
  /\ olast.op \in {"close", "destroy"} /\ ~olast.pre.open_ => olast.issued = <<>>
  /\ \A h \in 1..Len(natives) : natives[h] <= 1
  /\ \A k \in 1..Len(olast.issued) :
       olast.issued[k].cmd = "close" => olast.issued[k].id \in 1..Len(natives)

\* A second close() in a row, after a handle was opened and closed.
C28_Witness ==
  /\ olast.op = "close" /\ ~olast.pre.open_ /\ olast.issued = <<>>
  /\ \E h \in 1..Len(natives) : natives[h] = 1


\* ---- integer tiers
\* v lies in the signed range of n bits, -2^(n-1) .. 2^(n-1) - 1, n <= 16.
InSigned(v, n) ==
  \/ v.hi = 0 /\ v.lo <= 2^(n - 1) - 1
  \/ v.hi = -1 /\ v.lo >= 2^16 - 2^(n - 1)

\* The narrowest signed tier that holds v.
NarrowestTier(v) ==
  IF InSigned(v, 8) THEN "MYSQL_TYPE_TINY"
  ELSE IF InSigned(v, 16) THEN "MYSQL_TYPE_SHORT"
  ELSE IF v.hi >= -(2^15) /\ v.hi <= 2^15 - 1 THEN "MYSQL_TYPE_LONG"
  ELSE "MYSQL_TYPE_LONGLONG"

\* C29: an Integer binding gets the narrowest signed tier that contains its
\* value; 127 and -128 are in the 8-bit tier, 128 and -129 in the 16-bit
\* tier, and so on at each boundary.
C29_AsStated ==
  ret # <<>> => ret[1] = NarrowestTier(arg.i64)


\* ---- calls on the handle
\* C30: begin() calls first() once and then next() once; an increment, pre
\* or post, of an iterator that observes the handle calls next() once while
\* the handle is alive and nothing otherwise; end(), dereference and
\* comparison call nothing.
C30_CallsPerOperation ==
  /\ clast.op = "begin" => clast.calls = <<"first", "next">>
  /\ clast.op \in {"advance", "post"} =>
       clast.calls = IF clast.pre.stmt_ = "stmt" /\ clast.alive THEN <<"next">> ELSE <<>>
  /\ clast.op \in {"end", "star", "equals"} => clast.calls = <<>>

\* A post-increment of an iterator on a live handle, its old value kept.
C30_Witness ==
  /\ clast.op = "post" /\ clast.alive /\ clast.pre.stmt_ = "stmt"
  /\ clast.calls = <<"next">>
  /\ \E j \in Slots : j # clast.slot /\ its[j].used /\ its[j].row_ = clast.pre.row_


\* ---- where the statement runs inside execute
ExecCmds == {"step", "execute", "PQexec", "PQexecParams"}

\* C31 as stated: the native command that executes the statement is issued
\* after the scoped transaction's BEGIN and before its COMMIT or ROLLBACK.
C31_AsStated ==
  xlast.op = "execute" =>
    \A k \in 1..Len(xlast.issued) :
      xlast.issued[k].cmd \in ExecCmds =>
        /\ \E b \in 1..(k - 1) : xlast.issued[b].cmd = "BEGIN"
        /\ \A e \in 1..(k - 1) : xlast.issued[e].cmd \notin {"COMMIT", "ROLLBACK"}


\* ---- the format append returns
\* C32 as stated: a format append that was entered returns, whatever the
\* accumulated text and the names.
C32_AsStated == (fmt.pc # "idle") ~> (fmt.pc = "idle")


\* ---- iterator comparison
SameRows(r, q) ==
  /\ Len(r) = Len(q)
  /\ \A i \in 1..Len(r) :
       /\ r[i].type_ = q[i].type_ /\ r[i].name_ = q[i].name_
       /\ r[i].int_ = q[i].int_ /\ r[i].float_ = q[i].float_ /\ r[i].str_ = q[i].str_

\* C33: a comparison of two iterators is true exactly when their current
\* rows have the same length and pairwise-equal fields, whichever handle each
\* observes; so an iterator equals end() exactly when its current row has no
\* field, and one standing on a row with a field does not equal end().
C33_EqualIsRowEquality ==
  /\ clast.op = "equals" => (clast.eq <=> SameRows(clast.pre.row_, clast.rhs.row_))
  /\ \A i \in Slots :
       its[i].used => (iterator_eq(its[i], cursor_end(stmt).it) <=> Len(its[i].row_) = 0)

\* A true comparison with end() of an iterator that was advanced past the
\* last row of a handle that has rows.
C33_Witness ==
  /\ clast.op = "equals" /\ clast.eq
  /\ clast.pre.stmt_ = "stmt" /\ clast.rhs.stmt_ = "null"
  /\ stmt.alive /\ Len(stmt.rows) > 0


\* ---- one read position for all iterators of a cursor
RowAt(h) == IF h.pos < Len(h.rows) THEN h.rows[h.pos + 1] ELSE <<>>
Others(s) == Slots \ {s}

C35_AsStated ==
  klast.op = "execute" /\ klast.results => klast.name \notin klast.open


\* ---- Blob round trip
\* C36 as stated: the text sent for a bound Blob, decoded by next(), gives
\* back the Blob's bytes, for every byte sequence.
C36_AsStated == ret # <<>> /\ arg.sent # <<>> => ret[1] = arg.blob


\* ---- comparison with native integers
\* C37 as stated: a Value equals a native char, short or int exactly when its
\* tag is Integer and its stored 64-bit integer is the native integer's
\* value.
C37_AsStated ==
  ret # <<>> /\ "ctype" \in DOMAIN arg =>
    (ret[1] <=> arg.f.type_ = SQL_INTEGER /\ arg.f.int_ = arg.n)


\* ---- the identifier a concurrent insert reports
HasRead(t) == th[t].pc \in {"read", "held", "done"}

\* C38 as stated: the handle of a thread's successful insert reports the
\* identifier and the row count of that very insert, and no native call of
\* another thread came between the statement's execution and the reading of
\* them.
C38_AsStated ==
  \A t \in Threads :
    HasRead(t) /\ th[t].h.result = SQL_OK /\ th[t].reps = 0 =>
      /\ th[t].h.last_id_ = t /\ th[t].h.affected_rows_ = 1
      /\ ~th[t].gap

====
